---- MODULE Spec2Model ----
(***************************************************************************)
(* A model of the readline shell: the read loop (Shell.Readline, init,     *)
(* run, execute), the history manager (history.Sources) and the history    *)
(* and vi commands dispatched by the loop.                                 *)
(*                                                                         *)
(* A line is a sequence of one-character strings. A history source is the  *)
(* sequence of its lines, oldest first: GetLine(i) is element i+1, and     *)
(* Len-1 is the index of the most recently written line.                   *)
(***************************************************************************)
EXTENDS Integers, Sequences, FiniteSets, TLC

\* ---------------------------------------------------------------- bounds
MaxLen == 2
MaxHist == 2
MaxWrites == 1
MaxIter == 2

\* The characters keys can insert: a letter and the comment sign. Blanks
\* enter a line as the newline accept-line inserts in a multiline input.
Chars == {"a", "#"}

Max(a, b) == IF a > b THEN a ELSE b
Min(a, b) == IF a < b THEN a ELSE b

\* ------------------------------------------------------- keymap constants
Emacs == "emacs"
ViIns == "vi-insert"
ViCmd == "vi-command"
ViMove == "vi-move"
Vi == "vi"

\* Local keymaps; NoLocal is the empty name SetLocal("") leaves.
NoLocal == ""
Isearch == "isearch"
Visual == "vi-visual"
ViOpp == "vi-opp"

\* --------------------------------------------------------------- errors
NoErr == "nil"
ErrInterrupt == "interrupt"
ErrEOF == "EOF"

\* ------------------------------------------------------------ core.Line
IsSpace(c) == c \in {" ", "\n", "\t"}

\* strings.TrimSpace(line) == ""
IsBlank(l) == \A i \in 1..Len(l) : IsSpace(l[i])

\* strings.HasPrefix(l, p)
HasPrefix(l, p) == Len(p) <= Len(l) /\ SubSeq(l, 1, Len(p)) = p

\* regexp.MatchString of a quoted (literal) pattern: p occurs in l.
Contains(l, p) ==
    \E i \in 0..(Len(l) - Len(p)) : SubSeq(l, i + 1, i + Len(p)) = p

\* Line.Insert(pos, r): pos is a 0-based position.
LineInsert(l, pos, c) == SubSeq(l, 1, pos) \o <<c>> \o SubSeq(l, pos + 1, Len(l))

\* ---------------------------------------------------------- core.Cursor
\* Cursor.CheckAppend: the cursor may rest one past the last character.
CheckAppend(l, pos) == Max(0, Min(Len(l), pos))

\* Cursor.CheckCommand: the cursor rests on the last character at most.
CheckCommand(l, pos) ==
    IF Len(l) = 0 THEN 0 ELSE Max(0, Min(Len(l) - 1, pos))

\* Cursor.Set(pos): clamps to the buffer bounds.
CursorSet(l, pos) == CheckAppend(l, pos)

\* -------------------------------------------------------- history.Source
\* memory.GetLine(i): an error outside [0, Len).
GetLine(h, i) ==
    IF i < 0 \/ i >= Len(h)
    THEN [err |-> TRUE, line |-> <<>>]
    ELSE [err |-> FALSE, line |-> h[i + 1]]

\* memory.Write(s): appends the line and returns the new length.
SourceWrite(h, l) == [hist |-> Append(h, l), n |-> Len(h) + 1]

\* The per-line edit history of a recalled entry: NoEdit when the user has
\* not edited the entry at that index since it was recalled.
NoEdit == <<"<none>">>
NoEdits == [i \in 1..(MaxHist + MaxWrites) |-> NoEdit]

\* No compiled expression: the nil *regexp.Regexp.
NoRegex == <<"<nil>">>

\* No selection on the input line.
NoSelection == [active |-> FALSE, bpos |-> -1, kind |-> ""]

\* ---------------------------------------------------------------- state
VARIABLES
    pc,          \* position of the caller: "idle" (outside Readline) or "loop"
    raw,         \* the terminal is in raw mode (term.MakeRaw without Restore)
    ret,         \* what the last Readline call returned
    line,        \* Shell.line, the input line
    cursor,      \* Shell.cursor position
    main,        \* main keymap
    hist,        \* lines of the bound history source, oldest first
    hpos,        \* Sources.hpos
    buf,         \* Sources.buf
    infer,       \* Sources.infer
    accepted,    \* Sources.accepted
    acceptHold,  \* Sources.acceptHold
    acceptLine,  \* Sources.acceptLine
    acceptErr,   \* Sources.acceptErr
    cpos,        \* Sources.cpos
    skip,        \* Sources.skip
    edits,       \* Sources.lines: latest edited state of each recalled entry
    maxEntries,  \* Sources.maxEntries
    preservePoint, \* option history-preserve-point
    revertAll,   \* option revert-all-at-newline
    multiline,   \* the host installed Shell.AcceptMultiline
    autosuggest, \* option history-autosuggest
    readErr,     \* the bound source answers its reads with an error
    last,        \* the last step taken: "none", "init", "init-after-accept-line",
                 \* "rawfail", "panic", "cmd", "prefixed-local", "prefixed-main"
                 \* (keys that start a longer binding), "unresolved" (keys bound to no
                 \* command), "undefined", "undefined-isearch" (keys not bound,
                 \* read with the local keymap isearch)
    ups,         \* previous-history commands in a row since the live buffer
    base,        \* number of entries the source held at construction
    via,         \* the command whose accept ended the last Readline call, until
                 \* the next call runs a command, or the command of Tracked
                 \* that ran last; "" otherwise
    local,       \* local keymap
    isearchBuf,  \* Engine.isearchBuf, the search minibuffer
    isearchCur,  \* Engine.isearchCur: the minibuffer cursor, -1 when nil
    isearchInsert,    \* Engine.isearchInsert
    isearchForward,   \* Engine.isearchForward
    isearchSubstring, \* Engine.isearchSubstring
    isearchModeExit,  \* Engine.isearchModeExit
    selected,    \* Engine.selected.Value: the candidate inserted virtually
    completed,   \* Engine.completed: the line with the candidate inserted
    compCursor,  \* Engine.compCursor
    hint,        \* the hint text: "", "isearch", "inc-search", "non-inc-search",
                 \* "failed-regexp" (Failed to compile i-search regexp),
                 \* "history-error" (history error: ...)
    selection,   \* Shell.selection on the input line: active, anchor, kind
    pending,     \* the operator command waiting for a movement, "" when none
    pendSkip,    \* the keymap skips the next RunPending
    register,    \* the text last written to the default register
    isearchRegex, \* Engine.isearch, the compiled minibuffer: NoRegex when nil
    rows,        \* the candidates in the rows of the completion group
    values,      \* the candidates of one tag handed to generateGroup
    groups,      \* Engine.groups: the groups generated for the tag
    names,       \* Sources.names: the names of the bound sources, in order
    list,        \* Sources.list: the lines of the source bound to each name
    sourcePos,   \* Sources.sourcePos: the index of the source in use
    wrote,       \* the line last handed to Sources.Write, NoWrite before
    grp          \* the completion group being laid out and selected in

vars == <<pc, raw, ret, line, cursor, main, hist, hpos, buf, infer, accepted,
          acceptHold, acceptLine, acceptErr, cpos, skip, edits, maxEntries,
          preservePoint, revertAll, multiline, autosuggest, readErr, last, ups,
          base,
          via,
          local, isearchBuf, isearchCur, isearchInsert, isearchForward,
          isearchSubstring, isearchModeExit, selected, completed, compCursor,
          hint, selection, pending, pendSkip, register, isearchRegex, rows,
          values, groups, names, list, sourcePos, wrote, grp>>

\* The state of the parts exercised on their own: no command of the read
\* loop modelled here touches it.
comps == <<values, groups>>
srcs == <<names, list, sourcePos>>
apart == <<comps, srcs, wrote, grp>>

\* No line was handed to Sources.Write yet.
NoWrite == <<"<none>">>

\* The name the source made by NewSources is bound to.
defaultSourceName == "default"

\* No group: the fields of completion.group before newCompletionGroup, and
\* where the layout of the group stands (pc), the row at hand (i, row,
\* split), what moveSelector returned (done, next).
NoGroup ==
    [pc |-> "idle", termWidth |-> 0, aliased |-> FALSE, grid |-> <<>>,
     descriptions |-> <<>>, columnsWidth |-> <<0>>, maxColumns |-> 0, i |-> 0,
     row |-> <<>>, split |-> FALSE, rows |-> <<>>, descs |-> <<>>,
     maxX |-> 0, maxY |-> 0, posX |-> -1, posY |-> -1,
     done |-> FALSE, next |-> FALSE]

\* The parts exercised on their own, as constructed.
ApartInit ==
    /\ values = <<>>
    /\ groups = <<>>
    /\ names = <<defaultSourceName>>
    /\ list = [n \in {defaultSourceName} |-> <<>>]
    /\ sourcePos = 0
    /\ wrote = NoWrite
    /\ grp = NoGroup

\* GetBuffer that always hands out the input line.
GetBufferLineOnly(s) == "line"

\* Engine.GetBuffer: the buffer commands work on is the search minibuffer
\* while it has a cursor, else the completed line while a candidate is
\* inserted virtually, else the input line.
GetBuffer(s) ==
    IF s.isearchCur # -1 THEN "minibuffer"
    ELSE IF s.selected # <<>> THEN "completed"
    ELSE "line"

\* The shell, history-manager and completion-engine fields as one record, so
\* that the operations below are functions from state to state. Field view
\* names the buffer Shell.line and Shell.cursor point to: the one GetBuffer
\* returned last.
Fields ==
    [line |-> line, cursor |-> cursor, main |-> main, hist |-> hist,
     hpos |-> hpos, buf |-> buf, infer |-> infer, accepted |-> accepted,
     acceptHold |-> acceptHold, acceptLine |-> acceptLine,
     acceptErr |-> acceptErr, cpos |-> cpos, skip |-> skip, edits |-> edits,
     local |-> local, isearchBuf |-> isearchBuf, isearchCur |-> isearchCur,
     isearchInsert |-> isearchInsert, isearchForward |-> isearchForward,
     isearchSubstring |-> isearchSubstring, isearchModeExit |-> isearchModeExit,
     selected |-> selected, completed |-> completed, compCursor |-> compCursor,
     hint |-> hint, selection |-> selection, pending |-> pending,
     pendSkip |-> pendSkip, register |-> register,
     isearchRegex |-> isearchRegex, rows |-> rows]

St == Fields @@ [view |-> GetBuffer(Fields), tmp |-> NoSelection, panic |-> FALSE]

\* Shell.line, Shell.cursor = Engine.GetBuffer()
Rebind(s) == [s EXCEPT !.view = GetBuffer(s), !.tmp = NoSelection]

\* *rl.line and rl.cursor.Pos(). The minibuffer cursor IsearchStop dropped
\* is still the one a command holds: it is read as 0 and writes to it are
\* lost.
RlLine(s) ==
    CASE s.view = "minibuffer" -> s.isearchBuf
      [] s.view = "completed" -> s.completed
      [] OTHER -> s.line

RlCursor(s) ==
    CASE s.view = "minibuffer" -> IF s.isearchCur = -1 THEN 0 ELSE s.isearchCur
      [] s.view = "completed" -> s.compCursor
      [] OTHER -> s.cursor

SetRlCursor(s, c) ==
    CASE s.view = "minibuffer" ->
           [s EXCEPT !.isearchCur = IF @ = -1 THEN -1 ELSE c]
      [] s.view = "completed" -> [s EXCEPT !.compCursor = c]
      [] OTHER -> [s EXCEPT !.cursor = c]

SetRl(s, l, c) ==
    CASE s.view = "minibuffer" ->
           [s EXCEPT !.isearchBuf = l, !.isearchCur = IF @ = -1 THEN -1 ELSE c]
      [] s.view = "completed" -> [s EXCEPT !.completed = l, !.compCursor = c]
      [] OTHER -> [s EXCEPT !.line = l, !.cursor = c]

\* -------------------------------------------------------- core.Selection
\* rl.selection is the selection of the input line, or, when GetBuffer
\* returned the minibuffer, a new selection made for that call (field tmp):
\* what a command marks on it is gone with the next GetBuffer.
Sel(s) == IF s.view = "minibuffer" THEN s.tmp ELSE s.selection

SetSel(s, v) ==
    IF s.view = "minibuffer" THEN [s EXCEPT !.tmp = v]
    ELSE [s EXCEPT !.selection = v]

SelReset(s) == SetSel(s, NoSelection)

\* Selection.Mark(pos): an active selection anchored at pos.
SelMark(s, pos) == SetSel(s, [active |-> TRUE, bpos |-> pos, kind |-> ""])

\* Selection.Visual(line)
SelVisual(s, wholeLine) ==
    SetSel(s, [Sel(s) EXCEPT !.kind = IF wholeLine THEN "line" ELSE "visual"])

\* ------------------------------------------------------ completion.Engine
\* The virtually inserted candidate becomes part of the input line.
Promote(s) ==
    IF s.selected = <<>> THEN s
    ELSE [s EXCEPT !.line = s.completed,
                   !.cursor = s.compCursor,
                   !.selected = <<>>,
                   !.completed = <<>>,
                   !.compCursor = 0]

\* completion.UpdateInserted, called when no local binding matched.
UpdateInserted(s) == Promote(s)

IsearchStart(s, autoinsert) ==
    [s EXCEPT !.local = Isearch,
              !.isearchInsert = autoinsert,
              !.isearchBuf = <<>>,
              !.isearchCur = 0,
              !.hint = "isearch"]

\* IsearchStop that drops the minibuffer text with the expression.
IsearchStopDropsBuffer(s) ==
    [s EXCEPT !.local = NoLocal, !.isearchRegex = NoRegex, !.isearchCur = -1,
              !.isearchBuf = <<>>]

\* Engine.IsearchStop: the minibuffer text is kept.
IsearchStop(s) ==
    [s EXCEPT !.local = NoLocal, !.isearchRegex = NoRegex, !.isearchCur = -1]

\* Engine.Reset: the inserted candidate is accepted, and incremental search
\* is left; a non-incremental search is not cancelled.
Reset(s) ==
    LET p == Promote(s)
    IN  IF p.local = Isearch THEN IsearchStop(p) ELSE p

\* Engine.ResetForce, at the start of a call: nothing is left inserted and
\* incremental search is left.
ResetForce(s) ==
    LET p == [s EXCEPT !.selected = <<>>, !.completed = <<>>, !.compCursor = 0]
    IN  IF p.local = Isearch THEN IsearchStop(p) ELSE p

IsEmacs(m) == m = Emacs

NonIsearchStart(s, repeat, forward, substring) ==
    LET b == IF ~repeat THEN <<>> ELSE s.isearchBuf
    IN  [s EXCEPT !.isearchBuf = b,
                  !.isearchCur = Len(b),
                  !.isearchForward = forward,
                  !.isearchSubstring = substring,
                  !.isearchModeExit = s.main,
                  !.main = IF ~IsEmacs(s.main) /\ s.main # ViIns THEN ViIns ELSE @]

\* NonIsearchStop that leaves the minibuffer its cursor.
NonIsearchStopKeepsCursor(s) == s

\* NonIsearchStop that leaves the main keymap the search forced.
NonIsearchStopKeepsMain(s) ==
    [s EXCEPT !.isearchRegex = NoRegex,
              !.isearchCur = -1,
              !.isearchForward = FALSE,
              !.isearchSubstring = FALSE,
              !.cursor = IF s.main = ViCmd THEN CheckCommand(s.line, s.cursor) ELSE @,
              !.hint = ""]

NonIsearchStop(s) ==
    LET m == IF s.main # s.isearchModeExit THEN s.isearchModeExit ELSE s.main
    IN  [s EXCEPT !.isearchRegex = NoRegex,
                  !.isearchCur = -1,
                  !.isearchForward = FALSE,
                  !.isearchSubstring = FALSE,
                  !.main = m,
                  !.isearchModeExit = IF s.main # s.isearchModeExit THEN "" ELSE @,
                  !.cursor = IF m = ViCmd THEN CheckCommand(s.line, s.cursor) ELSE @,
                  !.hint = ""]

NonIncrementallySearching(s) == s.isearchCur # -1 /\ s.local # Isearch

\* hasUpper and the case folding of the (?i) flag.
Lower(c) == IF c = "A" THEN "a" ELSE c
LowerLine(l) == [j \in 1..Len(l) |-> Lower(l[j])]
HasUpper(l) == \E j \in 1..Len(l) : l[j] # Lower(l[j])

\* regexp.Compile of the minibuffer: of the characters keys insert, "("
\* opens a group that nothing closes.
Compiles(b) == \A j \in 1..Len(b) : b[j] # "("

\* Regexp.MatchString(e) of the compiled minibuffer pat, case-insensitive
\* unless pat has an uppercase character.
RegexMatch(pat, e) ==
    IF HasUpper(pat) THEN Contains(e, pat) ELSE Contains(LowerLine(e), pat)

\* The candidates the cached completer of a history search generates: the
\* entries of the history, the most recent one first.
Cached(s) == [j \in 1..Len(s.hist) |-> s.hist[Len(s.hist) + 1 - j]]

\* group.updateIsearch: nothing is done without a compiled expression;
\* else the rows are emptied, and the routines that would fill them with
\* the matching candidates are not run.
groupUpdateIsearch(r, regex) == IF regex = NoRegex THEN r ELSE <<>>

\* The candidates of an incremental search on the history: the entries the
\* compiled minibuffer matches, all of them when it did not compile.
Matches(s) ==
    {i \in 1..Len(s.hist) :
        s.isearchRegex = NoRegex \/ RegexMatch(s.isearchRegex, s.hist[i])}

\* Engine.Select(1, 0): the first candidate is inserted virtually.
SelectFirst(s) ==
    LET i == CHOOSE k \in Matches(s) : \A j \in Matches(s) : j <= k
    IN  [s EXCEPT !.selected = s.hist[i],
                  !.completed = s.hist[i],
                  !.compCursor = Len(s.hist[i])]

\* The minibuffer is compiled; a failure leaves no expression and its hint.
compileIsearch(s) ==
    IF Compiles(s.isearchBuf) THEN [s EXCEPT !.isearchRegex = s.isearchBuf]
    ELSE [s EXCEPT !.isearchRegex = NoRegex, !.hint = "failed-regexp"]

\* GenerateWith(cached), each group's updateIsearch, then the search hint.
filterGroups(c) ==
    [c EXCEPT !.rows = groupUpdateIsearch(Cached(c), c.isearchRegex),
              !.hint = "inc-search"]

updateIncrementalSearch(s) ==
    IF s.isearchInsert /\ Matches(compileIsearch(s)) # {} /\ Len(s.isearchBuf) > 0
    THEN SelectFirst(filterGroups(compileIsearch(s)))
    ELSE filterGroups(compileIsearch(s))

updateNonIncrementalSearch(s) == [s EXCEPT !.hint = "non-inc-search"]

UpdateIsearch(s) ==
    IF s.local # Isearch /\ s.isearchCur = -1 THEN s
    ELSE IF s.selected # <<>> THEN s
    ELSE IF s.local = Isearch THEN updateIncrementalSearch(s)
    ELSE updateNonIncrementalSearch(s)

\* ------------------------------------------------------- history.Sources
\* Source.GetLine(i) of the bound source: its error when its reads fail.
ReadLine(h, i) ==
    IF readErr THEN [err |-> TRUE, line |-> <<>>] ELSE GetLine(h, i)

\* Sources.getLineHistory at the current hpos: the latest edited state of
\* the entry at index Len - hpos, if the user edited it.
LineHistory(s) ==
    LET linePos == Len(s.hist) - s.hpos
    IN  IF linePos + 1 \in DOMAIN s.edits THEN s.edits[linePos + 1] ELSE NoEdit

setLineCursorMatch(s, next) ==
    LET cp == IF s.cpos = -1 /\ Len(s.line) > 0 /\ s.cursor < Len(s.line) - 1
              THEN s.cursor ELSE s.cpos
    IN  [s EXCEPT !.cpos = cp,
                  !.line = next,
                  !.cursor = IF preservePoint /\ Len(next) > cp /\ cp # -1
                             THEN CursorSet(next, cp)
                             ELSE CursorSet(next, Len(next))]

\* clampHpos without its upper case.
clampHposNoUpper(moved, n) ==
    IF moved < 0 THEN 0 ELSE moved

\* The switch of Walk on the moved position: hpos stays in [0, Len].
clampHpos(moved, n) ==
    IF moved > n THEN n ELSE IF moved < 0 THEN 0 ELSE moved

\* entryIndex counting from the oldest entry.
entryIndexFromOldest(n, hp) == hp - 1

\* The index Walk fetches for position hp: history.Len() - h.hpos.
entryIndex(n, hp) == n - hp

Walk(s, pos) ==
    LET n == Len(s.hist)
    IN  IF n = 0 THEN s
        ELSE IF (pos < 0 /\ s.hpos = 0) \/ (pos > 0 /\ s.hpos = n) THEN s
        ELSE
          LET b == IF s.hpos = 0 /\ s.hpos + pos = 1 THEN s.line ELSE s.buf
              moved == s.hpos + pos
              hp == clampHpos(moved, n)
              s1 == [s EXCEPT !.buf = b,
                              !.hpos = hp,
                              !.line = IF moved = 0 THEN b ELSE @,
                              !.cursor = IF moved = 0 THEN CursorSet(b, Len(b)) ELSE @]
              ed == LineHistory(s1)
              got == ReadLine(s1.hist, entryIndex(n, hp))
          IN  IF hp = 0 THEN s1
              ELSE IF ed # NoEdit THEN setLineCursorMatch(s1, ed)
              ELSE IF got.err THEN [s1 EXCEPT !.hint = "history-error"]
              ELSE setLineCursorMatch(s1, got.line)

\* Sources.Fetch(pos): entry pos, counted from the oldest, becomes the line.
Fetch(s, pos) ==
    IF Len(s.hist) = 0 THEN s
    ELSE IF pos < 0 \/ pos >= Len(s.hist) THEN s
    ELSE IF ReadLine(s.hist, pos).err THEN [s EXCEPT !.hint = "history-error"]
    ELSE [s EXCEPT !.line = ReadLine(s.hist, pos).line,
                   !.cursor = CursorSet(ReadLine(s.hist, pos).line,
                                        Len(ReadLine(s.hist, pos).line))]

\* isDuplicate that never finds a duplicate.
isDuplicateNever(lastLine, l) == FALSE

\* Write's test that the line is identical to the last one.
isDuplicate(lastLine, l) ==
    ~lastLine.err /\ lastLine.line # <<>> /\ lastLine.line = l

Write(s, inf) ==
    IF inf THEN [s EXCEPT !.infer = TRUE]
    ELSE IF IsBlank(s.line) THEN s
    ELSE IF maxEntries = 0 \/ maxEntries >= Len(s.hist) THEN s
    ELSE
      LET lastLine == ReadLine(s.hist, Len(s.hist) - 1)
          w == SourceWrite(s.hist, s.line)
      IN  IF isDuplicate(lastLine, s.line)
          THEN s
          ELSE [s EXCEPT !.hist = w.hist, !.hpos = w.n]

Accept(s, hold, inf, err) ==
    Write([s EXCEPT !.accepted = TRUE,
                    !.acceptHold = hold,
                    !.acceptLine = s.line,
                    !.acceptErr = err], inf)

\* Sources.match, from index histPos on: the loop of match.
RECURSIVE matchFrom(_, _, _, _, _)
matchFrom(h, query, fwd, regex, histPos) ==
    LET n == Len(h)
        more == IF fwd THEN histPos < n ELSE histPos > 0
        p == IF fwd THEN histPos + 1 ELSE histPos - 1
        got == ReadLine(h, p)
        hit == IF regex THEN Contains(got.line, query)
               ELSE HasPrefix(got.line, query)
    IN  IF ~more THEN [line |-> <<>>, pos |-> 0, found |-> FALSE]
        ELSE IF got.err THEN [line |-> <<>>, pos |-> 0, found |-> FALSE]
        ELSE IF hit THEN [line |-> got.line, pos |-> p, found |-> TRUE]
        ELSE matchFrom(h, query, fwd, regex, p)

\* match that starts from the ends of the history whatever hpos is.
matchFromEnds(s, m, curPos, usePos, fwd, regex) ==
    LET start == IF fwd THEN -1 ELSE Len(s.hist)
        query == IF regex /\ curPos < Len(m) THEN SubSeq(m, 1, curPos) ELSE m
    IN  matchFrom(s.hist, query, fwd, regex, start)

\* Sources.match(match, cur, usePos, fwd, regex); curPos is cur.Pos().
match(s, m, curPos, usePos, fwd, regex) ==
    LET n == Len(s.hist)
        start == IF usePos /\ s.hpos > 0 THEN n - s.hpos
                 ELSE IF fwd THEN -1 ELSE n
        query == IF regex /\ curPos < Len(m) THEN SubSeq(m, 1, curPos) ELSE m
    IN  matchFrom(s.hist, query, fwd, regex, start)

\* InsertMatch that counts hpos from the oldest entry.
InsertMatchFromOldest(s, l, curPos, usePos, fwd, regex) ==
    LET m == match(s, l, curPos, usePos, fwd, regex)
    IN  IF ~m.found THEN s
        ELSE [s EXCEPT !.hpos = m.pos + 1,
                       !.line = m.line,
                       !.cursor = CursorSet(m.line, Len(m.line))]

InsertMatch(s, l, curPos, usePos, fwd, regex) ==
    LET m == match(s, l, curPos, usePos, fwd, regex)
    IN  IF ~m.found THEN s
        ELSE [s EXCEPT !.hpos = Len(s.hist) - m.pos,
                       !.line = m.line,
                       !.cursor = CursorSet(m.line, Len(m.line))]

InferNext(s) ==
    LET n == Len(s.hist)
        m == match(s, s.line, 0, FALSE, FALSE, FALSE)
        got == ReadLine(s.hist, m.pos + 1)
    IN  IF ~m.found THEN s
        ELSE IF n <= (n - m.pos) + 1 THEN s
        ELSE IF got.err THEN s
        ELSE [s EXCEPT !.line = got.line,
                       !.cursor = CursorSet(got.line, Len(got.line))]

\* Sources.Suggest(line): the line itself when it is empty or when match,
\* run backwards from the most recent entry in prefix mode, finds nothing.
Suggest(s, l) ==
    LET m == match(s, l, 0, FALSE, FALSE, FALSE)
    IN  IF Len(l) = 0 THEN l
        ELSE IF ~m.found THEN l
        ELSE m.line

\* Init that leaves hpos where the accept left it when nothing is inferred.
Init_SourcesKeepsHpos(s) ==
    LET body ==
          IF s.acceptHold
          THEN [s EXCEPT !.hpos = 0,
                         !.line = s.acceptLine,
                         !.cursor = CursorSet(s.acceptLine, Len(s.acceptLine))]
          ELSE IF ~s.infer THEN s
          ELSE LET t == IF s.hpos = -1 THEN [s EXCEPT !.hpos = 0]
                        ELSE IF s.hpos = 0 THEN InferNext(s)
                        ELSE Walk(s, -1)
               IN  [t EXCEPT !.infer = FALSE]
    IN  [body EXCEPT !.accepted = FALSE,
                     !.acceptLine = <<>>,
                     !.acceptErr = NoErr,
                     !.cpos = -1]

\* Init whose hold case keeps the hpos the accept left.
Init_SourcesHoldKeepsHpos(s) ==
    LET body ==
          IF s.acceptHold
          THEN [s EXCEPT !.line = s.acceptLine,
                         !.cursor = CursorSet(s.acceptLine, Len(s.acceptLine))]
          ELSE IF ~s.infer THEN [s EXCEPT !.hpos = 0]
          ELSE LET t == IF s.hpos = -1 THEN [s EXCEPT !.hpos = 0]
                        ELSE IF s.hpos = 0 THEN InferNext(s)
                        ELSE Walk(s, -1)
               IN  [t EXCEPT !.infer = FALSE]
    IN  [body EXCEPT !.accepted = FALSE,
                     !.acceptLine = <<>>,
                     !.acceptErr = NoErr,
                     !.cpos = -1]

\* Sources.Init, the deferred resets applied last.
Init_Sources(s) ==
    LET body ==
          IF s.acceptHold
          THEN [s EXCEPT !.hpos = 0,
                         !.line = s.acceptLine,
                         !.cursor = CursorSet(s.acceptLine, Len(s.acceptLine))]
          ELSE IF ~s.infer THEN [s EXCEPT !.hpos = 0]
          ELSE LET t == IF s.hpos = -1 THEN [s EXCEPT !.hpos = 0]
                        ELSE IF s.hpos = 0 THEN InferNext(s)
                        ELSE Walk(s, -1)
               IN  [t EXCEPT !.infer = FALSE]
    IN  [body EXCEPT !.accepted = FALSE,
                     !.acceptLine = <<>>,
                     !.acceptErr = NoErr,
                     !.cpos = -1]

\* The comment sign of option comment-begin.
CommentBegin == "#"

\* ReplaceAllString of (^|\s)<comment-begin>.* by "": scanning l from the
\* 1-based index i, a comment starts at i when l[i] is the comment sign at
\* the start of the text, or l[i] is a space followed by the sign; it runs
\* to the end of the line (the dot matches no newline).
RECURSIVE stripFrom(_, _)
stripFrom(l, i) ==
    LET atStart == i = 1 /\ l[i] = CommentBegin
        afterSpace == IsSpace(l[i]) /\ i < Len(l) /\ l[i + 1] = CommentBegin
        nl == {j \in i + 1..Len(l) : l[j] = "\n"}
        \* the first newline after the comment sign, or one past the end
        afterSign == IF atStart THEN i ELSE i + 1
        ends == {j \in nl : j > afterSign}
        stop == IF ends = {} THEN Len(l) + 1
                ELSE CHOOSE j \in ends : \A k \in ends : j <= k
    IN  IF i > Len(l) THEN <<>>
        ELSE IF atStart \/ afterSpace THEN stripFrom(l, stop)
        ELSE <<l[i]>> \o stripFrom(l, i + 1)

StripComments(l) == stripFrom(l, 1)

\* LineAccepted that reports an accept only when it carries no error.
LineAcceptedWithoutError(s) ==
    IF ~s.accepted \/ s.acceptErr # NoErr
    THEN [ok |-> FALSE, line |-> <<>>, err |-> NoErr, st |-> s]
    ELSE [ok |-> TRUE, line |-> StripComments(s.acceptLine), err |-> s.acceptErr,
          st |-> IF revertAll THEN [s EXCEPT !.edits = NoEdits] ELSE s]

\* LineAccepted that returns the accepted line with its comments.
LineAcceptedKeepsComments(s) ==
    IF ~s.accepted
    THEN [ok |-> FALSE, line |-> <<>>, err |-> NoErr, st |-> s]
    ELSE [ok |-> TRUE, line |-> s.acceptLine, err |-> s.acceptErr,
          st |-> IF revertAll THEN [s EXCEPT !.edits = NoEdits] ELSE s]

\* Sources.LineAccepted: (accepted, line, err), and the edit histories it
\* reverts with revert-all-at-newline.
LineAccepted(s) ==
    IF ~s.accepted
    THEN [ok |-> FALSE, line |-> <<>>, err |-> NoErr, st |-> s]
    ELSE [ok |-> TRUE, line |-> StripComments(s.acceptLine), err |-> s.acceptErr,
          st |-> IF revertAll THEN [s EXCEPT !.edits = NoEdits] ELSE s]

\* ------------------------------------------------------ cursor movements
\* Cursor.Inc / Cursor.Dec: bounds-checked.
CursorInc(l, pos) == IF pos < Len(l) THEN pos + 1 ELSE pos
CursorDec(pos) == IF pos > 0 THEN pos - 1 ELSE pos

\* Cursor.AtBeginningOfLine: at 0 or right after a newline.
AtBeginningOfLine(l, pos) == pos = 0 \/ (pos <= Len(l) /\ l[pos] = "\n")

\* Cursor.EndOfLineAppend: one past the last character of the logical line.
EndOfLineAppend(l, pos) ==
    LET nls == {j \in (pos + 1)..Len(l) : l[j] = "\n"}
    IN  IF nls = {} THEN Len(l)
        ELSE (CHOOSE j \in nls : \A k \in nls : j <= k) - 1

\* -------------------------------------------------------- shell commands
\* self-insert of character c at the cursor.
selfInsert(s, c) ==
    SetRl(s, LineInsert(RlLine(s), RlCursor(s), c), RlCursor(s) + 1)

\* The newline put at the end of the line whatever the cursor is.
insertNewlineAtEnd(b) ==
    SetRl(b, Append(RlLine(b), "\n"), Len(RlLine(b)) + 1)

\* rl.line.Insert(rl.cursor.Pos(), '\n'); rl.cursor.Inc()
insertNewline(b) ==
    SetRl(b, LineInsert(RlLine(b), RlCursor(b), "\n"),
          CursorInc(LineInsert(RlLine(b), RlCursor(b), "\n"), RlCursor(b)))

\* acceptLineWith once the completion is reset.
acceptLineOn(r, inf, hold, ok) ==
    IF NonIncrementallySearching(r)
    THEN NonIsearchStop(InsertMatch(r, r.isearchBuf, r.isearchCur, TRUE,
                                    r.isearchForward, r.isearchSubstring))
    ELSE IF ok THEN Accept(Rebind(r), hold, inf, NoErr)
    ELSE insertNewline(Rebind(r))

\* Shell.acceptLineWith(infer, hold); ok is the answer of AcceptMultiline
\* (TRUE when none is installed).
acceptLineWith(s, inf, hold, ok) == acceptLineOn(Reset(s), inf, hold, ok)

acceptLineCmd(s, ok) == acceptLineWith(s, FALSE, FALSE, ok)
acceptAndHold(s, ok) == acceptLineWith(s, FALSE, TRUE, ok)
acceptAndInferNextHistory(s, ok) == acceptLineWith(s, TRUE, FALSE, ok)

\* interrupt and end-of-file: an accept carrying an error.
interrupt(s) == Accept(s, FALSE, FALSE, ErrInterrupt)
endOfFile(s) == Accept(s, FALSE, FALSE, ErrEOF)

downHistory(s) == Walk([s EXCEPT !.skip = TRUE], -1)
upHistory(s) == Walk([s EXCEPT !.skip = TRUE], 1)
beginningOfHistory(s) == Walk([s EXCEPT !.skip = TRUE], Len(s.hist))
endOfHistory(s) == Walk(s, 1 - Len(s.hist))

\* Shell.endOfBufferOrHistory: the cursor goes to the end of the buffer
\* when it is before the last character, else the history to its end.
endOfBufferOrHistory(s) ==
    IF RlCursor(s) < Len(RlLine(s)) - 1
    THEN SetRlCursor([s EXCEPT !.skip = TRUE], CursorSet(RlLine(s), Len(RlLine(s))))
    ELSE endOfHistory([s EXCEPT !.skip = TRUE])

\* Shell.fetchHistory: the entry the numeric argument names, entry 0 without
\* an argument.
fetchHistory(s, isSet, n) == Fetch(s, IF isSet THEN n ELSE 0)

\* history-search-forward / -backward: the match replaces the line and the
\* cursor goes back to where it was.
historySearch(s, fwd) ==
    LET cp == RlCursor(s)
    IN  SetRlCursor(InsertMatch(s, RlLine(s), cp, TRUE, fwd, FALSE),
                    CursorSet(RlLine(InsertMatch(s, RlLine(s), cp, TRUE, fwd, FALSE)), cp))

historySearchForward(s) == historySearch(s, TRUE)
historySearchBackward(s) == historySearch(s, FALSE)

historySubstringSearchForward(s) ==
    InsertMatch(s, RlLine(s), RlCursor(s), TRUE, TRUE, TRUE)
historySubstringSearchBackward(s) ==
    InsertMatch(s, RlLine(s), RlCursor(s), TRUE, FALSE, TRUE)

nonIncrementalForwardSearchHistory(s) == NonIsearchStart(s, FALSE, TRUE, TRUE)
nonIncrementalReverseSearchHistory(s) == NonIsearchStart(s, FALSE, FALSE, TRUE)

\* Shell.historyCompletion for the incremental searches: incremental search
\* starts on the history, with or without insertion of the first match.
historyCompletion(s, autoinsert) ==
    IsearchStart([s EXCEPT !.skip = TRUE], autoinsert)

viSearchForward(s) == NonIsearchStart(s, FALSE, TRUE, TRUE)

\* viSearchAgain once NonIsearchStart has run: GetBuffer hands out the
\* minibuffer, the match is inserted and the search stopped.
searchAgainOn(n, forward) ==
    NonIsearchStop(InsertMatch(n, n.isearchBuf, n.isearchCur, TRUE, forward, TRUE))

\* Shell.viSearchAgain: key n searches forward, key N backward.
viSearchAgain(s, forward) ==
    searchAgainOn(NonIsearchStart(s, TRUE, forward, TRUE), forward)

viInsertMode(s) ==
    [SelReset(s) EXCEPT !.local = NoLocal, !.main = ViIns]

\* viCommandMode once the completion is reset and the buffer bound again.
commandModeOn(r) ==
    [SetRlCursor(r, CheckCommand(RlLine(r),
                                 IF r.main = ViIns
                                    /\ ~AtBeginningOfLine(RlLine(r), RlCursor(r))
                                 THEN CursorDec(RlCursor(r))
                                 ELSE RlCursor(r)))
        EXCEPT !.local = NoLocal, !.main = ViCmd]

viCommandMode(s) ==
    commandModeOn(Rebind(Reset([SelReset(s) EXCEPT !.hint = ""])))

\* The selection is marked at the cursor as a visual one.
visualOn(r, wholeLine) ==
    [SelVisual(SelMark(r, RlCursor(r)), wholeLine) EXCEPT !.local = Visual]

viVisualMode(s) ==
    visualOn(Reset([s EXCEPT !.skip = TRUE, !.hint = ""]), FALSE)

viVisualLineMode(s) ==
    visualOn(Reset([s EXCEPT !.skip = TRUE, !.hint = ""]), TRUE)

viAddNext(s) ==
    viInsertMode(IF Len(RlLine(s)) > 0
                 THEN SetRlCursor(s, CursorInc(RlLine(s), RlCursor(s)))
                 ELSE s)

viAddEol(s) ==
    IF s.local = Visual
    THEN viInsertMode(SetRlCursor(s, CursorInc(RlLine(s), RlCursor(s))))
    ELSE viInsertMode(SetRlCursor(s, EndOfLineAppend(RlLine(s), RlCursor(s))))

\* The loop of viForwardChar: line[pos+1] is read before each move, and a
\* read outside the line panics.
RECURSIVE forwardLoop(_, _, _, _)
forwardLoop(l, pos, i, vii) ==
    IF i > vii THEN [pos |-> pos, panic |-> FALSE]
    ELSE IF pos + 1 >= Len(l) THEN [pos |-> pos, panic |-> TRUE]
    ELSE IF l[pos + 2] = "\n" THEN [pos |-> pos, panic |-> FALSE]
    ELSE forwardLoop(l, CursorInc(l, pos), i + 1, vii)

\* Shell.autosuggestAccept: a suggestion longer than the line becomes the
\* line, the cursor at its end.
autosuggestAccept(s) ==
    IF Len(Suggest(s, RlLine(s))) <= Len(RlLine(s)) THEN s
    ELSE SetRl(s, Suggest(s, RlLine(s)), Len(Suggest(s, RlLine(s))))

viForwardChar(s, vii) ==
    LET r == forwardLoop(RlLine(s), RlCursor(s), 1, vii)
    IN  IF autosuggest /\ RlCursor(s) = Len(RlLine(s)) - 1
        THEN autosuggestAccept(s)
        ELSE IF s.main # ViIns /\ RlCursor(s) < Len(RlLine(s)) - 1
        THEN [SetRlCursor(s, r.pos) EXCEPT !.skip = TRUE, !.panic = r.panic]
        ELSE [s EXCEPT !.skip = TRUE]

\* The loop of viBackwardChar: line[pos-1] is read before each move.
RECURSIVE backwardLoop(_, _, _, _)
backwardLoop(l, pos, i, vii) ==
    IF i > vii THEN [pos |-> pos, panic |-> FALSE]
    ELSE IF pos - 1 < 0 \/ pos - 1 >= Len(l) THEN [pos |-> pos, panic |-> TRUE]
    ELSE IF l[pos] = "\n" THEN [pos |-> pos, panic |-> FALSE]
    ELSE backwardLoop(l, CursorDec(pos), i + 1, vii)

viBackwardChar(s, vii) ==
    LET r == backwardLoop(RlLine(s), RlCursor(s), 1, vii)
    IN  IF RlCursor(s) = 0 THEN [s EXCEPT !.skip = TRUE]
        ELSE [SetRlCursor(s, r.pos) EXCEPT !.skip = TRUE, !.panic = r.panic]

viEndOfLine(s) ==
    [SetRlCursor(s, EndOfLineAppend(RlLine(s), RlCursor(s))) EXCEPT !.skip = TRUE]

\* ------------------------------------------------- selections, operators
\* Cursor.BeginningOfLine: the start of the logical line the cursor is on.
LineBegin(l, pos) ==
    LET nls == {j \in 1..Min(pos, Len(l)) : l[j] = "\n"}
    IN  IF nls = {} THEN 0 ELSE CHOOSE j \in nls : \A k \in nls : j >= k

\* Selection.Pos: the part [b, e) of the buffer the selection covers. A
\* visual selection takes in the character under the cursor, a visual-line
\* one the logical line of the cursor.
SelBounds(s) ==
    LET l == RlLine(s)
        c == RlCursor(s)
        lo == Min(Sel(s).bpos, c)
        hi == Max(Sel(s).bpos, c)
    IN  CASE Sel(s).kind = "line" ->
               [b |-> LineBegin(l, c), e |-> EndOfLineAppend(l, c)]
          [] Sel(s).kind = "visual" -> [b |-> lo, e |-> Min(Len(l), hi + 1)]
          [] OTHER -> [b |-> lo, e |-> hi]

SelText(s) == SubSeq(RlLine(s), SelBounds(s).b + 1, SelBounds(s).e)

\* Selection.Cut: the selected text leaves the buffer.
SelCut(s) ==
    LET l == RlLine(s)
        r == SelBounds(s)
        n == SubSeq(l, 1, r.b) \o SubSeq(l, r.e + 1, Len(l))
    IN  SelReset(SetRl(s, n, RlCursor(s)))

\* Buffers.Write: the text goes to the default register.
BuffersWrite(s, text) == [s EXCEPT !.register = text]

\* The linewise operators end the text with a newline unless it is empty
\* or has one.
WithNewline(text) ==
    IF Len(text) > 0 /\ text[Len(text)] # "\n" THEN text \o <<"\n">> ELSE text

\* Line.CutRune(pos): the line without the character at the 0-based pos.
CutRune(l, pos) == SubSeq(l, 1, pos) \o SubSeq(l, pos + 2, Len(l))

\* The loop of viDeleteChar: line[pos] is read, then cut, the cursor where
\* it was.
RECURSIVE deleteLoop(_, _, _, _, _)
deleteLoop(l, pos, i, vii, cut) ==
    IF i > vii THEN [line |-> l, cut |-> cut, panic |-> FALSE]
    ELSE IF pos >= Len(l) THEN [line |-> l, cut |-> cut, panic |-> TRUE]
    ELSE deleteLoop(CutRune(l, pos), pos, i + 1, vii, Append(cut, l[pos + 1]))

\* What the loop of viDeleteChar leaves: the register is written after it.
deleteCharOn(s, r) ==
    IF r.panic THEN [SetRl(s, r.line, RlCursor(s)) EXCEPT !.panic = TRUE]
    ELSE BuffersWrite(SetRl(s, r.line, RlCursor(s)), r.cut)

viDeleteChar(s, vii) ==
    IF Len(RlLine(s)) = 0 \/ RlCursor(s) = Len(RlLine(s)) THEN s
    ELSE deleteCharOn(s, deleteLoop(RlLine(s), RlCursor(s), 1, vii, <<>>))

\* keymap.Engine Pending, IsPending, CancelPending: the local keymap is
\* operator-pending and the command is kept; the RunPending of the command
\* that asked for it is skipped.
Pending(s, cmd) == [s EXCEPT !.local = ViOpp, !.pending = cmd, !.pendSkip = TRUE]
IsPending(s) == s.local = ViOpp
CancelPending(s) ==
    [s EXCEPT !.pending = "", !.local = IF @ = ViOpp THEN NoLocal ELSE @]

\* The text cut from m (c is what the cut left) goes to the register and
\* the cursor to where the selection began.
cutInto(m, c, text) ==
    SetRlCursor(BuffersWrite(c, text), CursorSet(RlLine(c), SelBounds(m).b))

\* The whole logical line of the cursor is selected.
markLine(s) == SelVisual(SelMark(s, RlCursor(s)), TRUE)

deleteLine(m) == cutInto(m, SelCut(m), WithNewline(SelText(m)))
deleteSelection(m) == cutInto(m, SelCut(m), SelText(m))
yankLine(m) == BuffersWrite(SelReset(m), WithNewline(SelText(m)))
yankSelection(m) ==
    SetRlCursor(BuffersWrite(SelReset(m), SelText(m)),
                CursorSet(RlLine(m), SelBounds(m).b))

\* Shell.viDeleteTo; key is the key read last, "" when it is not d.
viDeleteTo(s, key) ==
    IF IsPending(s)
    THEN deleteLine(markLine([CancelPending(s) EXCEPT !.skip = TRUE]))
    ELSE IF Sel(s).active
    THEN viCommandMode(deleteSelection([s EXCEPT !.skip = TRUE]))
    ELSE IF key = "d" THEN SelMark(Pending(s, "vi-delete-to"), RlCursor(s))
    ELSE s

\* Shell.viChangeTo; key is the key read last, "" when it is not c. With an
\* active selection adjustSelectionPending makes the selection a visual one
\* when the command was run by its own key.
viChangeTo(s, key) ==
    IF IsPending(s)
    THEN viInsertMode(SelCut(markLine([CancelPending(s) EXCEPT !.skip = TRUE])))
    ELSE IF Sel(s).active
    THEN viInsertMode(deleteSelection(
             IF key = "c" THEN SelVisual([s EXCEPT !.skip = TRUE], FALSE)
             ELSE [s EXCEPT !.skip = TRUE]))
    ELSE IF key = "c" THEN SelMark(Pending(s, "vi-change-to"), RlCursor(s))
    ELSE s

\* Shell.viYankTo; key is the key read last, "" when it is not y.
viYankTo(s, key) ==
    IF IsPending(s)
    THEN yankLine(markLine([CancelPending(s) EXCEPT !.skip = TRUE]))
    ELSE IF Sel(s).active
    THEN viCommandMode(yankSelection([s EXCEPT !.skip = TRUE]))
    ELSE IF key = "y"
    THEN SelMark(Pending([s EXCEPT !.skip = TRUE], "vi-yank-to"), RlCursor(s))
    ELSE [s EXCEPT !.skip = TRUE]

\* keymap.Engine.RunPending: the pending operator runs on what the command
\* before it left selected.
RunPending(s) ==
    IF s.pending = "" THEN s
    ELSE IF s.pendSkip THEN [s EXCEPT !.pendSkip = FALSE]
    ELSE CASE s.pending = "vi-delete-to" -> viDeleteTo(CancelPending(s), "")
           [] s.pending = "vi-change-to" -> viChangeTo(CancelPending(s), "")
           [] OTHER -> viYankTo(CancelPending(s), "")

\* ------------------------------------------------------------ Shell.run
\* execute with the append check in every keymap.
checkAppend(r) == SetRlCursor(r, CheckAppend(RlLine(r), RlCursor(r)))

executeAlwaysAppend(s) == checkAppend(RunPending(s))

\* Shell.execute, s being the state the command left: the pending operator
\* runs, then the cursor is checked for the main keymap.
checkCursor(r) ==
    IF r.main \in {ViCmd, ViMove, Vi}
    THEN SetRlCursor(r, CheckCommand(RlLine(r), RlCursor(r)))
    ELSE SetRlCursor(r, CheckAppend(RlLine(r), RlCursor(r)))

execute(s) == checkCursor(RunPending(s))

\* Sources.SaveWithCommand: unless the command asked to skip the save, a
\* recalled history entry the command changed gets the line as its latest
\* edited state.
SaveWithCommand(s) ==
    LET idx == Len(s.hist) - s.hpos + 1
        changed == s.edits[idx] # NoEdit \/ s.hist[idx] # s.line
    IN  IF ~s.skip /\ ~s.accepted /\ s.hpos > 0 /\ s.hpos <= Len(s.hist) /\ changed
        THEN [s EXCEPT !.skip = FALSE, !.edits[idx] = s.line]
        ELSE [s EXCEPT !.skip = FALSE]

\* Shell.run after the command itself: execute's check, the search update,
\* the save and the accept test.
run(s) == LineAccepted(SaveWithCommand(Rebind(UpdateIsearch(execute(s)))))

\* ------------------------------------------------------------- Readline
\* NewSources: maxEntries from option history-size (set, value).
NewSources(sizeSet, size) ==
    IF size = 0 /\ ~sizeSet THEN -1
    ELSE IF size = 0 /\ sizeSet THEN 500
    ELSE size

\* No Readline call has returned yet, or one is running.
NoReturn == [line |-> <<>>, err |-> "none"]

\* The configurations the shell is constructed with: the default one, and
\* option history-size set to 0 and to 1.
Default == [sizeSet |-> FALSE, size |-> 0, preservePoint |-> FALSE,
            revertAll |-> FALSE, multiline |-> FALSE, autosuggest |-> FALSE,
            readErr |-> FALSE]
Configs ==
    {Default,
     [Default EXCEPT !.sizeSet = TRUE, !.size = 0],
     [Default EXCEPT !.sizeSet = TRUE, !.size = 1]}

\* The histories the bound source may hold at construction.
InitHists ==
    {h \in {<<>>,
            <<<<"#", "a">>, <<"a", "a">>>>,
            <<<<"a">>, <<"#", "a">>, <<"a", "a">>>>} : Len(h) <= MaxHist}

\* The completion engine, the selection, the keymap and the registers after
\* construction.
EngineInit ==
    /\ local = NoLocal
    /\ isearchBuf = <<>>
    /\ isearchCur = -1
    /\ isearchInsert = FALSE
    /\ isearchForward = FALSE
    /\ isearchSubstring = FALSE
    /\ isearchModeExit = ""
    /\ selected = <<>>
    /\ completed = <<>>
    /\ compCursor = 0
    /\ hint = ""
    /\ selection = NoSelection
    /\ pending = ""
    /\ pendSkip = FALSE
    /\ register = <<>>
    /\ isearchRegex = NoRegex
    /\ rows = <<>>

Init ==
    /\ pc = "idle"
    /\ raw = FALSE
    /\ ret = NoReturn
    /\ line = <<>>
    /\ cursor = 0
    /\ main = Emacs
    /\ hist \in InitHists
    /\ hpos = 0
    /\ buf = <<>>
    /\ infer = FALSE
    /\ accepted = FALSE
    /\ acceptHold = FALSE
    /\ acceptLine = <<>>
    /\ acceptErr = NoErr
    /\ cpos = -1
    /\ skip = FALSE
    /\ edits = NoEdits
    /\ \E c \in Configs :
         /\ maxEntries = NewSources(c.sizeSet, c.size)
         /\ preservePoint = c.preservePoint
         /\ revertAll = c.revertAll
         /\ multiline = c.multiline
         /\ autosuggest = c.autosuggest
         /\ readErr = c.readErr
    /\ last = "none"
    /\ ups = 0
    /\ base = Len(hist)
    /\ via = ""
    /\ EngineInit
    /\ ApartInit

\* The shell fields take the values of record s.
Commit(s) ==
    /\ line' = s.line
    /\ cursor' = s.cursor
    /\ main' = s.main
    /\ hist' = s.hist
    /\ hpos' = s.hpos
    /\ buf' = s.buf
    /\ infer' = s.infer
    /\ accepted' = s.accepted
    /\ acceptHold' = s.acceptHold
    /\ acceptLine' = s.acceptLine
    /\ acceptErr' = s.acceptErr
    /\ cpos' = s.cpos
    /\ skip' = s.skip
    /\ edits' = s.edits
    /\ local' = s.local
    /\ isearchBuf' = s.isearchBuf
    /\ isearchCur' = s.isearchCur
    /\ isearchInsert' = s.isearchInsert
    /\ isearchForward' = s.isearchForward
    /\ isearchSubstring' = s.isearchSubstring
    /\ isearchModeExit' = s.isearchModeExit
    /\ selected' = s.selected
    /\ completed' = s.completed
    /\ compCursor' = s.compCursor
    /\ hint' = s.hint
    /\ selection' = s.selection
    /\ pending' = s.pending
    /\ pendSkip' = s.pendSkip
    /\ register' = s.register
    /\ isearchRegex' = s.isearchRegex
    /\ rows' = s.rows

config == <<maxEntries, preservePoint, revertAll, multiline, autosuggest,
            readErr, base>>

engine == <<local, isearchBuf, isearchCur, isearchInsert, isearchForward,
            isearchSubstring, isearchModeExit, selected, completed, compCursor,
            hint, selection, pending, pendSkip, register, isearchRegex, rows>>

\* Readline when term.MakeRaw fails: ("", err), the loop is not entered.
ReadlineRawFails ==
    /\ pc = "idle"
    /\ ret' = [line |-> <<>>, err |-> "term"]
    /\ last' = "rawfail"
    /\ UNCHANGED <<pc, raw, line, cursor, main, hist, hpos, buf, infer,
                   accepted, acceptHold, acceptLine, acceptErr, cpos, skip,
                   edits, ups, via>>
    /\ UNCHANGED <<config, apart, engine>>

\* Shell.init: the editor is reset, then the history manager initialised,
\* then the hint and the completion engine reset. Shell.line is the buffer
\* the last GetBuffer of the previous call returned.
init(s) ==
    LET e == SelReset(SetRl(s, <<>>, 0))
        h == Init_Sources([e EXCEPT !.skip = FALSE])
    IN  ResetForce([h EXCEPT !.hint = ""])

\* The last accept was made by accept-line: no hold, no infer, no error.
AcceptedWithAcceptLine == accepted /\ ~acceptHold /\ ~infer /\ acceptErr = NoErr

\* term.Restore called before the returns of Readline instead of deferred:
\* a panic leaves the terminal in raw mode.
RestoreNotDeferred(how) == how = "panic"

\* The deferred term.Restore of Readline, on a return or on a panic: the
\* terminal is no longer in raw mode.
Restore(how) == FALSE

\* Readline up to its loop: raw mode, prompt, init.
ReadlineStart ==
    /\ pc = "idle"
    /\ pc' = "loop"
    /\ raw' = TRUE
    /\ Commit(init(St))
    /\ last' = IF AcceptedWithAcceptLine THEN "init-after-accept-line" ELSE "init"
    /\ ups' = 0
    /\ ret' = NoReturn
    /\ UNCHANGED <<config, apart, via>>

\* The commands variable via keeps the name of also when they do not accept.
Tracked ==
    {"accept-line",
     "history-search-forward", "history-search-backward",
     "history-substring-search-forward", "history-substring-search-backward",
     "vi-search-again"}

\* One iteration of the loop of Readline for a key bound to the command
\* called name: s is the state the command leaves, r what run returns. A panic unwinds Readline
\* through its deferred term.Restore; an accept returns the line and the
\* error.
Iteration(name, s, r) ==
    /\ pc = "loop"
    /\ IF s.panic
       THEN /\ Commit(s)
            /\ pc' = "idle"
            /\ raw' = Restore("panic")
            /\ ret' = [line |-> <<>>, err |-> "panic"]
            /\ last' = "panic"
            /\ ups' = 0
            /\ via' = ""
       ELSE /\ Commit(r.st)
            /\ via' = IF r.ok \/ name \in Tracked THEN name ELSE ""
            /\ last' = "cmd"
            /\ ups' = IF name = "previous-history"
                      THEN IF hpos = 0 /\ edits = NoEdits THEN 1
                           ELSE IF ups = 0 \/ ups > Len(hist) THEN ups
                           ELSE ups + 1
                      ELSE IF name = "accept-line" /\ r.ok THEN ups
                      ELSE 0
            /\ IF r.ok
               THEN /\ pc' = "idle"
                    /\ raw' = Restore("return")
                    /\ ret' = [line |-> r.line, err |-> r.err]
               ELSE UNCHANGED <<pc, raw, ret>>
    /\ UNCHANGED <<config, apart>>

Dispatch(name, s) == Iteration(name, s, run(s))

\* The answers AcceptMultiline can give: TRUE when none is installed.
Answers == IF multiline THEN BOOLEAN ELSE {TRUE}

\* An accept may grow the history: the model lets Write add MaxWrites
\* entries to the ones the source held at construction.
CanAccept(s) == Len(s.hist) - base <= MaxWrites

\* The main keymap matched without the call of UpdateInserted before it.
MainStNotCommitted == Rebind(St)

\* What a command bound in the main keymap starts from: no local binding
\* matched, so the loop has called UpdateInserted.
MainSt == Rebind(UpdateInserted(St))

\* What an editing command starts from: during an incremental search the
\* isearch keymap binds the editing keys, so the command runs from the
\* local match; otherwise from the main one.
EditSt == IF local = Isearch THEN St ELSE MainSt

CanInsert == Len(RlLine(EditSt)) < MaxLen

SelfInsert == \E c \in Chars : CanInsert /\ Dispatch("self-insert", selfInsert(EditSt, c))
AcceptLine ==
    \E ok \in Answers :
        /\ CanAccept(acceptLineCmd(MainSt, ok))
        /\ ok \/ CanInsert
        /\ Dispatch("accept-line", acceptLineCmd(MainSt, ok))
AcceptAndHold ==
    \E ok \in Answers :
        /\ CanAccept(acceptAndHold(MainSt, ok))
        /\ ok \/ CanInsert
        /\ Dispatch("accept-and-hold", acceptAndHold(MainSt, ok))
AcceptAndInferNextHistory ==
    \E ok \in Answers :
        /\ ok \/ CanInsert
        /\ Dispatch("accept-and-infer-next-history", acceptAndInferNextHistory(MainSt, ok))
Interrupt == CanAccept(interrupt(MainSt)) /\ Dispatch("interrupt", interrupt(MainSt))
EndOfFile == CanAccept(endOfFile(MainSt)) /\ Dispatch("end-of-file", endOfFile(MainSt))
UpHistory == Dispatch("previous-history", upHistory(MainSt))
DownHistory == Dispatch("next-history", downHistory(MainSt))
BeginningOfHistory == Dispatch("beginning-of-history", beginningOfHistory(MainSt))
EndOfHistory == Dispatch("end-of-history", endOfHistory(MainSt))
EndOfBufferOrHistory ==
    Dispatch("end-of-buffer-or-history", endOfBufferOrHistory(MainSt))
FetchHistoryAt(isSet, n) ==
    Dispatch("fetch-history", fetchHistory(MainSt, isSet, n))
FetchHistory == \E isSet \in BOOLEAN : \E n \in 1..MaxIter : FetchHistoryAt(isSet, n)
ViInsertMode == Dispatch("vi-insertion-mode", viInsertMode(MainSt))
ViCommandMode == Dispatch("vi-movement-mode", viCommandMode(MainSt))
ViAddNext == Dispatch("vi-append-mode", viAddNext(MainSt))
ViForwardChar == \E n \in 1..MaxIter : Dispatch("vi-forward-char", viForwardChar(EditSt, n))
ViBackwardChar == \E n \in 1..MaxIter : Dispatch("vi-backward-char", viBackwardChar(EditSt, n))
ViEndOfLine == Dispatch("vi-end-of-line", viEndOfLine(EditSt))

Next ==
    \/ ReadlineRawFails
    \/ ReadlineStart
    \/ SelfInsert
    \/ AcceptLine
    \/ AcceptAndHold
    \/ AcceptAndInferNextHistory
    \/ Interrupt
    \/ EndOfFile
    \/ UpHistory
    \/ DownHistory
    \/ BeginningOfHistory
    \/ EndOfHistory
    \/ ViInsertMode
    \/ ViCommandMode
    \/ ViAddNext
    \/ ViForwardChar
    \/ ViBackwardChar
    \/ ViEndOfLine

Spec == Init /\ [][Next]_vars

\* ------------------------------------------------- searching the history
\* handleUndefined that leaves the incremental search running.
handleUndefinedKeepsSearch(s, bound) == s

\* Shell.handleUndefined(bind, cmd): bound tells that the keys matched a
\* binding (bind.Action is not empty) that resolved to no command.
handleUndefined(s, bound) ==
    IF bound THEN s
    ELSE IF s.local = Isearch THEN Reset([s EXCEPT !.hint = ""])
    ELSE s

\* One iteration of the loop for keys that no command was run for: both
\* calls of run return at once, UpdateInserted is called in between, then
\* handleUndefined.
Undefined ==
    \E bound \in BOOLEAN :
        /\ pc = "loop"
        /\ Commit(handleUndefined(UpdateInserted(St), bound))
        /\ last' = IF bound THEN "unresolved"
                   ELSE IF local = Isearch THEN "undefined-isearch"
                   ELSE "undefined"
        /\ ups' = 0
        /\ via' = ""
        /\ UNCHANGED <<pc, raw, ret, config, apart>>

HistorySearchForward ==
    Dispatch("history-search-forward", historySearchForward(MainSt))
HistorySearchBackward ==
    Dispatch("history-search-backward", historySearchBackward(MainSt))
HistorySubstringSearchForward ==
    Dispatch("history-substring-search-forward", historySubstringSearchForward(MainSt))
HistorySubstringSearchBackward ==
    Dispatch("history-substring-search-backward", historySubstringSearchBackward(MainSt))
NonIncrementalForwardSearchHistory ==
    Dispatch("non-incremental-forward-search-history",
             nonIncrementalForwardSearchHistory(MainSt))
NonIncrementalReverseSearchHistory ==
    Dispatch("non-incremental-reverse-search-history",
             nonIncrementalReverseSearchHistory(MainSt))
IncrementalSearchHistory ==
    \E autoinsert \in BOOLEAN :
        Dispatch("incremental-search-history", historyCompletion(MainSt, autoinsert))

\* The histories the searches run on.
SearchHists ==
    {<<<<"a">>, <<"a", "a">>>>}

\* The shell as constructed with main keymap m and configuration c, over
\* one of the histories of hs.
ShellInitOn(m, c, hs) ==
    /\ pc = "idle"
    /\ raw = FALSE
    /\ ret = NoReturn
    /\ line = <<>>
    /\ cursor = 0
    /\ main = m
    /\ hist \in hs
    /\ hpos = 0
    /\ buf = <<>>
    /\ infer = FALSE
    /\ accepted = FALSE
    /\ acceptHold = FALSE
    /\ acceptLine = <<>>
    /\ acceptErr = NoErr
    /\ cpos = -1
    /\ skip = FALSE
    /\ edits = NoEdits
    /\ maxEntries = NewSources(c.sizeSet, c.size)
    /\ preservePoint = c.preservePoint
    /\ revertAll = c.revertAll
    /\ multiline = c.multiline
    /\ autosuggest = c.autosuggest
    /\ readErr = c.readErr
    /\ last = "none"
    /\ ups = 0
    /\ base = Len(hist)
    /\ via = ""
    /\ EngineInit

EditorInitOn(m, c, hs) == ShellInitOn(m, c, hs) /\ ApartInit

EditorInit(m, c) == EditorInitOn(m, c, SearchHists)

\* The shell, the history and the engine, which the parts exercised on
\* their own leave as constructed.
shellButHpos ==
    <<pc, raw, ret, line, cursor, main, hist, buf, infer, accepted, acceptHold,
      acceptLine, acceptErr, cpos, skip, edits, last, ups, via, config, engine>>
shell == <<shellButHpos, hpos>>
ShellIdle == ShellInitOn(Emacs, Default, {<<>>})

\* Option history-size set to 0: the source takes no new entry.
SizeZero == [Default EXCEPT !.sizeSet = TRUE]

SearchInit == EditorInit(Emacs, SizeZero)

\* The user types the text to search for: in the minibuffer, or on the
\* line before any entry is recalled.
SearchInsert == (isearchCur # -1 \/ hpos = 0) /\ SelfInsert

SearchNext ==
    \/ ReadlineStart
    \/ SearchInsert
    \/ AcceptLine
    \/ UpHistory
    \/ ViCommandMode
    \/ ViBackwardChar
    \/ NonIncrementalForwardSearchHistory
    \/ NonIncrementalReverseSearchHistory

SpecSearch == SearchInit /\ [][SearchNext]_vars

\* ----------------------------------------------------- incremental search
IsearchNext ==
    \/ ReadlineStart
    \/ SelfInsert
    \/ AcceptLine
    \/ ViCommandMode
    \/ ViBackwardChar
    \/ IncrementalSearchHistory
    \/ Undefined

SpecIsearch == SearchInit /\ [][IsearchNext]_vars

\* The keys read are a strict prefix of bindings of the local keymap: the
\* loop continues before anything is run.
LocalPrefixed ==
    /\ pc = "loop"
    /\ local # NoLocal
    /\ last' = "prefixed-local"
    /\ UNCHANGED <<pc, raw, ret, line, cursor, main, hist, hpos, buf, infer,
                   accepted, acceptHold, acceptLine, acceptErr, cpos, skip,
                   edits, config, apart, ups, via, engine>>

\* No local binding matched and the keys are a strict prefix of bindings of
\* the main keymap: UpdateInserted has been called, nothing is run.
MainPrefixed ==
    /\ pc = "loop"
    /\ Commit(UpdateInserted(St))
    /\ last' = "prefixed-main"
    /\ UNCHANGED <<pc, raw, ret, config, apart, ups, via>>

\* The incremental search with keys that are the start of longer bindings.
LoopNext ==
    \/ IsearchNext
    \/ LocalPrefixed
    \/ MainPrefixed

SpecLoop == SearchInit /\ [][LoopNext]_vars

\* The history searches that select their match at once, with the commands
\* that move through the history and the line.
MatchNext ==
    \/ ReadlineStart
    \/ SearchInsert
    \/ AcceptLine
    \/ UpHistory
    \/ ViBackwardChar
    \/ HistorySearchForward
    \/ HistorySearchBackward
    \/ HistorySubstringSearchForward
    \/ HistorySubstringSearchBackward

SpecMatch == SearchInit /\ [][MatchNext]_vars

\* ------------------------------------------------------------ vi editing
\* The keys of the vi command keymap run their command when the main
\* keymap is vi-command, those that insert when it is vi-insert.
ViInsert == main = ViIns /\ SelfInsert
ViKeyInsert == main = ViCmd /\ ViInsertMode
ViKeyAppend == main = ViCmd /\ ViAddNext
ViKeyAppendEol == main = ViCmd /\ Dispatch("vi-append-eol", viAddEol(MainSt))
ViKeyVisual == main = ViCmd /\ Dispatch("vi-visual-mode", viVisualMode(MainSt))
ViKeyVisualLine == main = ViCmd /\ Dispatch("vi-visual-line-mode", viVisualLineMode(MainSt))
ViKeyLeft == main = ViCmd /\ Dispatch("vi-backward-char", viBackwardChar(MainSt, 1))
ViKeyDelete == main = ViCmd /\ Dispatch("vi-delete-to", viDeleteTo(MainSt, "d"))
ViKeyChange == main = ViCmd /\ Dispatch("vi-change-to", viChangeTo(MainSt, "c"))
ViKeyYank == main = ViCmd /\ Dispatch("vi-yank-to", viYankTo(MainSt, "y"))
ViKeySearch == main = ViCmd /\ Dispatch("vi-search-forward", viSearchForward(MainSt))

ViKeySearchAgain(forward) ==
    main = ViCmd /\ local # Isearch /\ Dispatch("vi-search-again", viSearchAgain(MainSt, forward))

ViDeleteCharBy(n) == main = ViCmd /\ Dispatch("vi-delete-char", viDeleteChar(MainSt, n))
ViForwardCharBy(n) == main = ViCmd /\ Dispatch("vi-forward-char", viForwardChar(MainSt, n))
ViBackwardCharBy(n) == main = ViCmd /\ Dispatch("vi-backward-char", viBackwardChar(MainSt, n))

ViInit == EditorInit(ViIns, SizeZero)

ViNext ==
    \/ ReadlineStart
    \/ ViInsert
    \/ ViCommandMode
    \/ ViKeyInsert
    \/ ViKeyAppend
    \/ ViKeyAppendEol
    \/ ViKeyVisual
    \/ ViKeyVisualLine
    \/ ViKeyLeft
    \/ ViKeyDelete
    \/ ViKeyChange
    \/ ViKeyYank
    \/ ViKeySearch

SpecVi == ViInit /\ [][ViNext]_vars

\* The cursor moved inside the line and through the history, in emacs.
BufferNext ==
    \/ ReadlineStart
    \/ SelfInsert
    \/ ViBackwardChar
    \/ UpHistory
    \/ EndOfBufferOrHistory

SpecBuffer == SearchInit /\ [][BufferNext]_vars

\* The vi commands on characters, with a repeat count, on a line of one or
\* several logical lines.
CharKeys == {"a", "b", "\n"}
CharInsert ==
    \E c \in CharKeys :
        main = ViIns /\ CanInsert /\ Dispatch("self-insert", selfInsert(MainSt, c))

CharNext ==
    \/ ReadlineStart
    \/ CharInsert
    \/ ViCommandMode
    \/ ViKeyInsert
    \/ \E n \in 1..MaxIter : ViDeleteCharBy(n)
    \/ \E n \in 1..MaxIter : ViForwardCharBy(n)
    \/ \E n \in 1..MaxIter : ViBackwardCharBy(n)

SpecChar == ViInit /\ [][CharNext]_vars

\* --------------------------------------------------- accepting comments
\* The keys typed into the line, and the length the line is typed up to.
MaxComment == 3
CommentChars == {"a", "#", " "}

\* The host decides whether a line is complete: a refused accept-line
\* inserts a newline.
AcceptInit == EditorInit(Emacs, [Default EXCEPT !.multiline = TRUE])

CommentInsert ==
    \E c \in CommentChars :
        /\ Len(line) < MaxComment
        /\ Dispatch("self-insert", selfInsert(MainSt, c))

AcceptOrNewline ==
    \E ok \in Answers :
        /\ CanAccept(acceptLineCmd(MainSt, ok))
        /\ ok \/ Len(line) < MaxComment
        /\ Dispatch("accept-line", acceptLineCmd(MainSt, ok))

AcceptNext ==
    \/ ReadlineStart
    \/ CommentInsert
    \/ AcceptOrNewline

SpecAccept == AcceptInit /\ [][AcceptNext]_vars

\* ------------------------------------------------ history-preserve-point
\* vi editing mode with option history-preserve-point set or unset.
PointInit ==
    \E p \in BOOLEAN : EditorInit(ViIns, [SizeZero EXCEPT !.preservePoint = p])

\* The user types on the line before any entry is recalled.
PointInsert == hpos = 0 /\ ViInsert

PointNext ==
    \/ ReadlineStart
    \/ PointInsert
    \/ AcceptLine
    \/ ViCommandMode
    \/ ViKeyInsert
    \/ ViKeyLeft
    \/ UpHistory
    \/ DownHistory

SpecPoint == PointInit /\ [][PointNext]_vars

\* ------------------------------------------------------- multiline input
\* The host installed a multiline-accept predicate or none; accepted lines
\* are written to the history.
MultilineInit ==
    \E p \in BOOLEAN :
        EditorInitOn(Emacs, [Default EXCEPT !.multiline = p], SearchHists)

MultilineNext ==
    \/ ReadlineStart
    \/ SelfInsert
    \/ ViBackwardChar
    \/ AcceptLine

SpecMultiline == MultilineInit /\ [][MultilineNext]_vars

\* ------------------------------------------------- searches and case
\* Histories and keys with a letter in both cases.
CaseChars == {"a", "A"}

CaseHists ==
    {<<<<"A">>, <<"a", "A">>>>,
     <<<<"A", "a">>, <<"a">>>>,
     <<<<"A", "A">>, <<"A">>>>}

CaseInit == EditorInitOn(Emacs, SizeZero, CaseHists)

\* The user types the text to search for before any entry is recalled.
CaseInsert ==
    \E c \in CaseChars :
        /\ hpos = 0
        /\ Len(line) < MaxLen
        /\ Dispatch("self-insert", selfInsert(MainSt, c))

CaseNext ==
    \/ ReadlineStart
    \/ CaseInsert
    \/ ViBackwardChar
    \/ HistorySearchBackward
    \/ HistorySubstringSearchForward
    \/ HistorySubstringSearchBackward

SpecCase == CaseInit /\ [][CaseNext]_vars

\* ------------------------------------------------------------ autosuggest
\* Option history-autosuggest set, in vi editing mode, over histories whose
\* entries extend, equal or differ from what the user types.
SuggestHists ==
    {<<>>,
     <<<<"a">>, <<"a", "a">>>>,
     <<<<"a", "a">>, <<"a">>>>,
     <<<<"a", "#">>, <<"#", "a", "a">>>>}

SuggestInit ==
    EditorInitOn(ViIns, [SizeZero EXCEPT !.autosuggest = TRUE], SuggestHists)

SuggestNext ==
    \/ ReadlineStart
    \/ ViInsert
    \/ ViCommandMode
    \/ ViInsertMode
    \/ ViForwardChar
    \/ ViBackwardChar

SpecSuggest == SuggestInit /\ [][SuggestNext]_vars

\* ------------------------------------- incremental search and expressions
\* The characters typed in the minibuffer: "(" alone is no expression.
RegexChars == CaseChars \cup {"("}

RegexInsert ==
    \E c \in RegexChars :
        /\ local = Isearch
        /\ CanInsert
        /\ Dispatch("self-insert", selfInsert(EditSt, c))

RegexNext ==
    \/ ReadlineStart
    \/ IncrementalSearchHistory
    \/ RegexInsert
    \/ ViBackwardChar
    \/ Undefined

SpecRegex == CaseInit /\ [][RegexNext]_vars

\* ------------------------------------------------- sources that fail
\* A source that holds entries and answers reads with an error, and one
\* that answers them.
ReadErrInit ==
    \E e \in BOOLEAN :
        EditorInitOn(Emacs, [SizeZero EXCEPT !.readErr = e], SearchHists)

ReadErrNext ==
    \/ ReadlineStart
    \/ SelfInsert
    \/ ViBackwardChar
    \/ UpHistory
    \/ DownHistory
    \/ BeginningOfHistory
    \/ EndOfHistory
    \/ FetchHistory

SpecReadErr == ReadErrInit /\ [][ReadErrNext]_vars

\* ---------------------------------------------------- completion groups
\* The candidates of a tag: a value, here a number ordered as the values
\* are, and a description, "" when the candidate has none.
MaxVals == 3
Descriptions == {"", "x", "y"}
Candidates == [value : 1..2, desc : Descriptions]

\* sort.Stable(vals): the candidates by value, those of equal value in the
\* order they had.
RECURSIVE insertSorted(_, _)
insertSorted(sorted, c) ==
    IF sorted = <<>> THEN <<c>>
    ELSE IF sorted[Len(sorted)].value <= c.value THEN Append(sorted, c)
    ELSE Append(insertSorted(SubSeq(sorted, 1, Len(sorted) - 1), c),
                sorted[Len(sorted)])
RECURSIVE sortStable(_)
sortStable(vs) ==
    IF vs = <<>> THEN <<>>
    ELSE insertSorted(sortStable(SubSeq(vs, 1, Len(vs) - 1)), vs[Len(vs)])

IsDescribed(c) == c.desc # ""
IsUndescribed(c) == c.desc = ""

\* Engine.groupNonDescribed: the described candidates, the others, and the
\* descriptions; the others take the place of the described ones when none
\* is described.
groupNonDescribed(vs) ==
    IF SelectSeq(vs, IsDescribed) = <<>>
    THEN [vals |-> SelectSeq(vs, IsUndescribed), noDescVals |-> <<>>,
          descriptions |-> <<>>]
    ELSE [vals |-> SelectSeq(vs, IsDescribed),
          noDescVals |-> SelectSeq(vs, IsUndescribed),
          descriptions |-> [j \in 1..Len(SelectSeq(vs, IsDescribed)) |->
                               SelectSeq(vs, IsDescribed)[j].desc]]

\* completionsAreAliases: a description of a candidate at an even index (from
\* 0) is the description of a candidate at an odd index.
completionsAreAliases(vs) ==
    \E i, j \in 1..Len(vs) :
        /\ (i - 1) % 2 = 0
        /\ (j - 1) % 2 # 0
        /\ vs[i].desc # ""
        /\ vs[j].desc = vs[i].desc

\* Engine.newCompletionGroup: the group of the values, sorted unless the
\* group is not to be, appended to the groups.
newGroup(tag, vs) == [tag |-> tag, vals |-> vs, aliased |-> completionsAreAliases(vs)]
newCompletionGroup(gs, tag, vs, noSort) ==
    Append(gs, newGroup(tag, IF noSort THEN vs ELSE sortStable(vs)))

\* The function Engine.generateGroup returns, applied to a tag and its
\* candidates: a first group, and a second one when candidates without
\* description remain; the second is made of the values of the first.
secondGroup(gs, split, noSort) ==
    IF Len(split.noDescVals) > 0
    THEN newCompletionGroup(gs, "", split.vals, noSort)
    ELSE gs
generateGroupOn(gs, tag, split, noSort) ==
    secondGroup(newCompletionGroup(gs, tag, split.vals, noSort), split, noSort)
generateGroup(gs, tag, vs, noSort) ==
    generateGroupOn(gs, tag, groupNonDescribed(vs), noSort)

\* The candidates of the tag arrive one by one, then the groups are made.
GroupInit == ShellIdle /\ ApartInit

AddValue ==
    \E c \in Candidates :
        /\ groups = <<>>
        /\ Len(values) < MaxVals
        /\ values' = Append(values, c)
        /\ grp.pc = "idle"
        /\ UNCHANGED <<groups, srcs, wrote, grp, shell>>

GenerateGroup ==
    \E noSort \in BOOLEAN :
        /\ groups = <<>>
        /\ groups' = generateGroup(<<>>, "tag", values, noSort)
        /\ UNCHANGED <<values, srcs, wrote, grp, shell>>

GroupNext == AddValue \/ GenerateGroup

SpecGroup == GroupInit /\ [][GroupNext]_vars

\* ------------------------------------------------- the layout of a group
\* The widths of the terminal, and the rows the layout is let grow to.
TermWidths == {6, 10, 20}
MaxRows == 4

\* Candidate.displayLen and descLen: a value is displayed in as many
\* characters as its number, a description in one.
displayLen(c) == c.value
descLen(c) == IF c.desc = "" THEN 0 ELSE 1

\* The largest number of a sequence of naturals, 0 for none.
MaxOf(ns) ==
    IF ns = <<>> THEN 0
    ELSE CHOOSE m \in {ns[k] : k \in 1..Len(ns)} : \A k \in 1..Len(ns) : ns[k] <= m

\* group.createDescribedRows: the descriptions in the order they first
\* occur, and for each the candidates that have it.
RECURSIVE uniqueDescriptions(_)
uniqueDescriptions(vs) ==
    IF vs = <<>> THEN <<>>
    ELSE IF \E k \in 1..(Len(vs) - 1) : vs[k].desc = vs[Len(vs)].desc
         THEN uniqueDescriptions(SubSeq(vs, 1, Len(vs) - 1))
         ELSE Append(uniqueDescriptions(SubSeq(vs, 1, Len(vs) - 1)), vs[Len(vs)].desc)
describedRow(vs, d) == SelectSeq(vs, LAMBDA c : c.desc = d)
createDescribedRows(vs) ==
    [k \in 1..Len(uniqueDescriptions(vs)) |-> describedRow(vs, uniqueDescriptions(vs)[k])]

\* The number of columns of a grid: the length of its longest row.
numColumns(grid) == MaxOf([k \in 1..Len(grid) |-> Len(grid[k])])

\* group.calculateMaxColumnWidths: for each column, the largest displayLen
\* + 1 of the candidates in it.
maxColumnWidths(grid, n) ==
    [j \in 1..n |->
        MaxOf([k \in 1..Len(grid) |->
                 IF j <= Len(grid[k]) THEN displayLen(grid[k][j]) + 1 ELSE 0])]

\* The loop over columnsWidth in initCompletionAliased: the columns kept
\* are those before the first that passes half the terminal width.
RECURSIVE breakevenLoop(_, _, _, _)
breakevenLoop(widths, termWidth, i, breakeven) ==
    IF i > Len(widths) THEN Len(widths)
    ELSE IF breakeven + widths[i] + 2 > termWidth \div 2 THEN i - 1
    ELSE breakevenLoop(widths, termWidth, i + 1, breakeven + widths[i] + 2)

\* group.longestValueDescribed, the list separator being "--".
pairLength(c) == displayLen(c) + (IF descLen(c) > 0 THEN descLen(c) + 4 ELSE 0)
longestValueDescribed(vs) == MaxOf([k \in 1..Len(vs) |-> pairLength(vs[k])])

\* createGrid and createRow
createRow(vs, maxColumns, rowIndex) ==
    SubSeq(vs, rowIndex * maxColumns + 1, Min((rowIndex + 1) * maxColumns, Len(vs)))
createGrid(vs, rowCount, maxColumns) ==
    [k \in 1..rowCount |-> createRow(vs, maxColumns, k - 1)]

\* math.Ceil(n / m) for m > 0
CeilDiv(n, m) == (n + m - 1) \div m

\* group.initCompletionsGrid: the rows are set before the widths and the
\* bounds are computed. No column fits when the longest pair is wider than
\* the terminal: the row count is not a number and making the grid panics.
gridOn(g, vs, maxColumns) ==
    IF maxColumns = 0 THEN [g EXCEPT !.pc = "panic"]
    ELSE [g EXCEPT !.pc = "done",
                   !.rows = createGrid(vs, CeilDiv(Len(vs), maxColumns), maxColumns),
                   !.maxY = CeilDiv(Len(vs), maxColumns),
                   !.maxX = Len(createRow(vs, maxColumns, 0)),
                   !.columnsWidth =
                       maxColumnWidths(createGrid(vs, CeilDiv(Len(vs), maxColumns),
                                                  maxColumns),
                                       Len(createRow(vs, maxColumns, 0))),
                   !.descs = [k \in 1..Len(vs) |-> <<vs[k].desc>>]]
initCompletionsGrid(g, vs) ==
    gridOn(g, vs, g.termWidth \div longestValueDescribed(vs))

\* group.initCompletionAliased up to its loop over the rows: maxY is the
\* number of the rows the group has then, which is none.
aliasedOn(g, grid, descriptions, widths) ==
    [g EXCEPT !.pc = "row", !.aliased = TRUE, !.grid = grid,
              !.descriptions = descriptions, !.columnsWidth = widths,
              !.maxY = 0, !.maxX = Len(widths),
              !.maxColumns = breakevenLoop(widths, g.termWidth, 1, 0)]
initCompletionAliased(g, vs) ==
    aliasedOn(g, createDescribedRows(vs), uniqueDescriptions(vs),
              maxColumnWidths(createDescribedRows(vs),
                              numColumns(createDescribedRows(vs))))

\* Engine.newCompletionGroup on the sorted values vs and a terminal width.
newCompletionGroupOn(vs, w) ==
    IF completionsAreAliases(vs)
    THEN initCompletionAliased([NoGroup EXCEPT !.termWidth = w], vs)
    ELSE initCompletionsGrid([NoGroup EXCEPT !.termWidth = w], vs)

\* One turn of "for len(row) > maxColumns": the first maxColumns cells
\* become a row of their own.
splitRow(g) ==
    [g EXCEPT !.rows = Append(@, SubSeq(g.row, 1, g.maxColumns)),
              !.row = SubSeq(g.row, g.maxColumns + 1, Len(g.row)),
              !.descs = Append(@, <<"|_">>),
              !.split = TRUE]

\* The end of a turn of "for i := range grid": the description and the
\* rest of the row are appended.
closeRow(g) ==
    [g EXCEPT !.descs = Append(@, IF g.split THEN <<"|", g.descriptions[g.i + 1]>>
                                  ELSE <<g.descriptions[g.i + 1]>>),
              !.rows = Append(@, g.row),
              !.i = @ + 1,
              !.pc = "row"]

\* The end of initCompletionAliased.
layoutDone(g) ==
    [g EXCEPT !.pc = "done", !.columnsWidth = SubSeq(@, 1, g.maxColumns)]

NewCompletionGroup ==
    \E w \in TermWidths : \E noSort \in BOOLEAN :
        /\ grp.pc = "idle"
        /\ values # <<>>
        /\ grp' = newCompletionGroupOn(IF noSort THEN values ELSE sortStable(values), w)
        /\ UNCHANGED <<comps, srcs, wrote, shell>>

NextRow ==
    /\ grp.pc = "row"
    /\ grp.i < Len(grp.grid)
    /\ grp' = [grp EXCEPT !.pc = "split", !.row = grp.grid[grp.i + 1], !.split = FALSE]
    /\ UNCHANGED <<comps, srcs, wrote, shell>>

SplitRow ==
    /\ grp.pc = "split"
    /\ Len(grp.row) > grp.maxColumns
    /\ Len(grp.rows) < MaxRows
    /\ grp' = splitRow(grp)
    /\ UNCHANGED <<comps, srcs, wrote, shell>>

CloseRow ==
    /\ grp.pc = "split"
    /\ Len(grp.row) <= grp.maxColumns
    /\ grp' = closeRow(grp)
    /\ UNCHANGED <<comps, srcs, wrote, shell>>

LayoutDone ==
    /\ grp.pc = "row"
    /\ grp.i = Len(grp.grid)
    /\ grp' = layoutDone(grp)
    /\ UNCHANGED <<comps, srcs, wrote, shell>>

Layout == NextRow \/ SplitRow \/ CloseRow \/ LayoutDone

LayoutNext ==
    \/ AddValue
    \/ NewCompletionGroup
    \/ NextRow
    \/ SplitRow
    \/ CloseRow
    \/ LayoutDone

\* newCompletionGroup runs to its end once called.
SpecLayout == GroupInit /\ [][LayoutNext]_vars /\ WF_vars(Layout)

\* --------------------------------------------------- the selector
\* The turns the loop of findFirstCandidate is followed for.
MaxTurns == 6

\* A 0-based index into a slice of the given length is in range.
InRange(i, len) == i >= 0 /\ i < len

\* moveSelector returns with the selector at (x, y); a read out of range
\* panics.
returned(g, x, y, done, next) ==
    [g EXCEPT !.posX = x, !.posY = y, !.done = done, !.next = next]
panicked(g) == [g EXCEPT !.pc = "panic"]

\* group.findFirstCandidate from the turn numbered turn on; the loop that
\* is still running after MaxTurns turns is taken not to end.
RECURSIVE findFirstCandidate(_, _, _, _)
nextColumn(g, x, y, turn) ==
    IF g.posY > g.maxY - 1
    THEN IF g.posX < Len(g.columnsWidth) - 1
         THEN findFirstCandidate([g EXCEPT !.posY = 0, !.posX = @ + 1], x, y, turn + 1)
         ELSE returned(g, g.posX, 0, TRUE, TRUE)
    ELSE findFirstCandidate(g, x, y, turn + 1)
previousColumn(g, x, y, turn) ==
    IF g.posY < 0
    THEN IF g.posX = 0 THEN returned(g, 0, 0, TRUE, FALSE)
         ELSE nextColumn([g EXCEPT !.posY = Len(g.rows) - 1, !.posX = @ - 1],
                         x, y, turn)
    ELSE nextColumn(g, x, y, turn)
findFirstCandidate(g, x, y, turn) ==
    IF ~InRange(g.posY, Len(g.rows)) THEN panicked(g)
    ELSE IF g.posX <= Len(g.rows[g.posY + 1]) - 1
         THEN returned(g, g.posX, g.posY, FALSE, FALSE)
    ELSE IF turn > MaxTurns THEN [g EXCEPT !.pc = "loops"]
    ELSE previousColumn([g EXCEPT !.posY = @ + y + x], x, y, turn)

\* The steps 4 to 1 of group.moveSelector.
lastColumn(g, x, y) ==
    IF ~InRange(g.posY, Len(g.rows)) THEN panicked(g)
    ELSE IF g.posX > Len(g.rows[g.posY + 1]) - 1
         THEN IF g.aliased THEN findFirstCandidate(g, x, y, 1)
              ELSE IF g.posY < g.maxY - 1
                   THEN returned(g, 0, g.posY + 1, FALSE, FALSE)
                   ELSE returned(g, 0, g.posY, TRUE, TRUE)
    ELSE returned(g, g.posX, g.posY, FALSE, FALSE)
lastRow(g, x, y) ==
    IF g.posY > g.maxY - 1
    THEN IF g.posX < g.maxX - 1
         THEN lastColumn([g EXCEPT !.posY = 0, !.posX = @ + 1], x, y)
         ELSE returned(g, g.posX, 0, TRUE, TRUE)
    ELSE lastColumn(g, x, y)
firstCandidate(g, x, y) ==
    IF g.posY < 0
    THEN IF g.posX = 0 THEN returned(g, 0, 0, TRUE, FALSE)
         ELSE lastRow([g EXCEPT !.posY = Len(g.rows) - 1, !.posX = @ - 1], x, y)
    ELSE lastRow(g, x, y)
firstColumn(g, x, y) ==
    IF g.posX < 0
    THEN IF g.posY = 0 /\ (x < 0 \/ y < 0) THEN returned(g, 0, 0, TRUE, FALSE)
         ELSE IF ~InRange(g.posY - 1, Len(g.rows))
              THEN panicked([g EXCEPT !.posY = @ - 1])
              ELSE firstCandidate([g EXCEPT !.posY = @ - 1,
                                            !.posX = Len(g.rows[g.posY]) - 1], x, y)
    ELSE firstCandidate(g, x, y)

\* The group not used yet is entered: by its first row when x moves, by
\* its first column otherwise.
entered(g, x) ==
    IF g.posX = -1 /\ g.posY = -1
    THEN IF x # 0 THEN [g EXCEPT !.posY = @ + 1] ELSE [g EXCEPT !.posX = @ + 1]
    ELSE g

\* group.moveSelector(x, y)
moved(g, x, y) == [g EXCEPT !.posX = @ + x, !.posY = @ + y]
moveSelector(g, x, y) == firstColumn(moved(entered(g, x), x, y), x, y)

MoveSelector(x, y) ==
    /\ grp.pc = "done"
    /\ InRange(grp.posX + 1, MaxVals + 2)
    /\ InRange(grp.posY + 1, MaxRows + 2)
    /\ grp' = moveSelector(grp, x, y)
    /\ UNCHANGED <<comps, srcs, wrote, shell>>

SelectNext ==
    \/ AddValue
    \/ NewCompletionGroup
    \/ NextRow
    \/ SplitRow
    \/ CloseRow
    \/ LayoutDone
    \/ \E x, y \in {-1, 0, 1} : MoveSelector(x, y)

SpecSelect == GroupInit /\ [][SelectNext]_vars

\* ------------------------------------------------ several history sources
\* The names sources are bound to, the lines a host accepts, and the number
\* of names Sources.names is let grow to.
MaxNames == 2
SourceNames == {defaultSourceName, "a", "b"}
WriteLines == {<<>>, <<" ">>, <<"a">>, <<"#">>}

\* The map ls with name bound to the lines src, and without name.
bind(ls, name, src) ==
    [n \in DOMAIN ls \cup {name} |-> IF n = name THEN src ELSE ls[n]]
unbind(ls, name) == [n \in DOMAIN ls \ {name} |-> ls[n]]

\* Sources.Add(name, hist): the source replaces the default one when that
\* is the only one bound.
addNames(nm, ls, name) ==
    IF Cardinality(DOMAIN ls) = 1 /\ nm[1] = defaultSourceName
    THEN <<name>> ELSE Append(nm, name)
addList(nm, ls, name, src) ==
    IF Cardinality(DOMAIN ls) = 1 /\ nm[1] = defaultSourceName
    THEN bind(unbind(ls, defaultSourceName), name, src)
    ELSE bind(ls, name, src)

\* The names without the first occurrence of name.
removeFirst(nm, name) ==
    IF \E i \in 1..Len(nm) : nm[i] = name
    THEN LET i == CHOOSE k \in 1..Len(nm) :
                      nm[k] = name /\ \A j \in 1..(k - 1) : nm[j] # name
         IN  SubSeq(nm, 1, i - 1) \o SubSeq(nm, i + 1, Len(nm))
    ELSE nm

\* Sources.Delete(sources...) with names: each is unbound and taken out of
\* the names once.
RECURSIVE deleteNames(_, _)
deleteNames(nm, ds) ==
    IF ds = <<>> THEN nm ELSE deleteNames(removeFirst(nm, Head(ds)), Tail(ds))
RECURSIVE deleteList(_, _)
deleteList(ls, ds) ==
    IF ds = <<>> THEN ls ELSE deleteList(unbind(ls, Head(ds)), Tail(ds))

\* Sources.Cycle(next)
cycle(pos, n, next) ==
    IF next THEN IF pos + 1 = n THEN 0 ELSE pos + 1
    ELSE IF pos - 1 < 0 THEN n - 1 ELSE pos - 1

\* Sources.Current and Sources.Name address a source: the index is one of
\* the names, and the name is bound.
CurrentExists ==
    /\ sourcePos >= 0
    /\ sourcePos < Len(names)
    /\ names[sourcePos + 1] \in DOMAIN list

\* The loop of Sources.Write over the map of the sources, taken in the
\* order the iteration of the map happens to give: a source at its limit
\* is passed over, a source whose last line is the line ends the loop, any
\* other gets the line, and hpos the number of its lines.
RECURSIVE writeLoop(_, _, _, _)
writeLoop(ls, hp, order, l) ==
    IF order = <<>> THEN [list |-> ls, hpos |-> hp]
    ELSE IF maxEntries = 0 \/ maxEntries >= Len(ls[Head(order)])
         THEN writeLoop(ls, hp, Tail(order), l)
    ELSE IF isDuplicate(GetLine(ls[Head(order)], Len(ls[Head(order)]) - 1), l)
         THEN [list |-> ls, hpos |-> hp]
    ELSE writeLoop([ls EXCEPT ![Head(order)] = SourceWrite(@, l).hist],
                   SourceWrite(ls[Head(order)], l).n, Tail(order), l)

\* Sources.Write(false) of line l.
writeAll(ls, hp, order, l) ==
    IF IsBlank(l) THEN [list |-> ls, hpos |-> hp] ELSE writeLoop(ls, hp, order, l)

\* The orders the iteration of a map with keys ks can take.
Orders(ks) ==
    {o \in [1..Cardinality(ks) -> ks] : \A i, j \in DOMAIN o : i # j => o[i] # o[j]}

SourcesInit == ShellIdle /\ ApartInit

SourcesAdd ==
    \E name \in SourceNames : \E src \in {<<>>, <<<<"a">>>>} :
        /\ Len(addNames(names, list, name)) <= MaxNames
        /\ names' = addNames(names, list, name)
        /\ list' = addList(names, list, name, src)
        /\ UNCHANGED <<sourcePos, wrote, comps, grp, shell>>

SourcesDelete(ds) ==
    /\ IF ds = <<>>
       THEN /\ names' = <<>>
            /\ list' = <<>>
            /\ UNCHANGED <<sourcePos, hpos>>
       ELSE /\ names' = deleteNames(names, ds)
            /\ list' = deleteList(list, ds)
            /\ sourcePos' = 0
            /\ hpos' = IF infer THEN hpos ELSE 0
    /\ UNCHANGED <<wrote, comps, grp, shellButHpos>>

SourcesCycle(next) ==
    /\ sourcePos <= MaxNames
    /\ sourcePos' = cycle(sourcePos, Len(names), next)
    /\ UNCHANGED <<names, list, wrote, comps, grp, shell>>

SourcesWrite(l) ==
    \E order \in Orders(DOMAIN list) :
        /\ \A n \in DOMAIN list : Len(list[n]) < MaxHist
        /\ list' = writeAll(list, hpos, order, l).list
        /\ hpos' = writeAll(list, hpos, order, l).hpos
        /\ wrote' = l
        /\ UNCHANGED <<names, sourcePos, comps, grp, shellButHpos>>

SourcesNext ==
    \/ SourcesAdd
    \/ \E ds \in {<<>>} \cup {<<n>> : n \in SourceNames} : SourcesDelete(ds)
    \/ \E next \in BOOLEAN : SourcesCycle(next)
    \/ \E l \in WriteLines : SourcesWrite(l)

SpecSources == SourcesInit /\ [][SourcesNext]_vars

\* ------------------------------------------------------- search again
\* Incremental and vi searches, and the keys that repeat the last search.
AgainNext ==
    \/ ReadlineStart
    \/ ViInsert
    \/ ViCommandMode
    \/ ViKeySearch
    \/ \E forward \in BOOLEAN : ViKeySearchAgain(forward)
    \/ IncrementalSearchHistory
    \/ AcceptLine

SpecAgain == ViInit /\ [][AgainNext]_vars

\* ================================================================ claims
ViCommandKeymaps == {ViCmd, ViMove, Vi}

\* C1: after every command the read loop dispatched, the cursor is within
\* [0, Len]; in a vi command/move keymap with a non-empty line it rests on
\* the last character at most, in the other keymaps it may be at Len.
C1_CursorChecked ==
    last = "cmd" =>
        /\ 0 <= cursor
        /\ cursor <= Len(line)
        /\ (main \in ViCommandKeymaps /\ Len(line) > 0) => cursor <= Len(line) - 1

\* A command ran in vi command mode on a two-character line and left the
\* cursor on its last character.
C1_Witness ==
    /\ last = "cmd"
    /\ pc = "loop"
    /\ main = ViCmd
    /\ Len(line) = 2
    /\ cursor = 1

C3_RawModeRestored ==
    /\ pc = "idle" => ~raw
    /\ pc = "loop" => raw
    /\ last = "rawfail" => (pc = "idle" /\ ret = [line |-> <<>>, err |-> "term"])

\* A command panicked and the call ended with the terminal restored.
C3_Witness ==
    /\ last = "panic"
    /\ pc = "idle"
    /\ ~raw

\* The deltas Walk is tried with.
Deltas == (0 - MaxHist - 1)..(MaxHist + 1)

\* C4: hpos is always within [0, Len], and on a non-empty source Walk(delta)
\* leaves hpos at max(0, min(Len, hpos + delta)).
C4_WalkClamps ==
    /\ 0 <= hpos
    /\ hpos <= Len(hist)
    /\ Len(hist) > 0 =>
         \A d \in Deltas :
             Walk(St, d).hpos = Max(0, Min(Len(hist), hpos + d))

\* A command walked to the oldest entry of a history of two or more
\* entries, from where any positive delta is clamped.
C4_Witness ==
    /\ last = "cmd"
    /\ pc = "loop"
    /\ Len(hist) >= 2
    /\ hpos = Len(hist)

\* C5: a step of the loop that leaves hpos=0 saves the live buffer into buf,
\* whatever the delta, and a step that returns to hpos=0 restores the line
\* from buf, also when the delta overshoots.
C5_BufSavedAndRestored ==
    [][(pc = "loop" /\ pc' = "loop") =>
          /\ (hpos = 0 /\ hpos' > 0) => buf' = line
          /\ (hpos > 0 /\ hpos' = 0) => line' = buf]_vars

\* C6: for every k > 0, Walk(+k) then Walk(-k) restores hpos, and the live
\* buffer when hpos is 0.
C6_WalkRoundTrip ==
    pc = "loop" =>
        \A k \in 1..(MaxHist + 1) :
            LET s2 == Walk(Walk(St, k), 0 - k)
            IN  /\ s2.hpos = hpos
                /\ hpos = 0 => s2.line = line

\* An accept made by accept-line in this step.
AcceptLineStep ==
    /\ pc = "loop"
    /\ ~accepted
    /\ accepted'
    /\ ~acceptHold'
    /\ infer' = infer
    /\ acceptErr' = NoErr

\* The k-th most recently written entry of history h.
Recent(h, k) == h[Len(h) - k + 1]

C8_WriteBelowCeiling ==
    [][(/\ AcceptLineStep
        /\ ~IsBlank(acceptLine')
        /\ (Len(hist) = 0 \/ hist[Len(hist)] # acceptLine')
        /\ (maxEntries < 0 \/ Len(hist) < maxEntries)) =>
          hist' = Append(hist, acceptLine')]_vars

\* C9: no entry written by Write equals the entry before it.
C9_NoAdjacentDuplicates ==
    \A i \in (base + 1)..Len(hist) : i > 1 => hist[i] # hist[i - 1]

\* A line identical to the most recent entry was accepted on an unbounded
\* source, and was not written again.
C9_Witness ==
    /\ accepted
    /\ maxEntries < 0
    /\ ~infer
    /\ ~IsBlank(acceptLine)
    /\ Len(hist) > 0
    /\ acceptLine = hist[Len(hist)]
    /\ hpos # Len(hist)

\* C10: the Readline call that follows an accept made by accept-line starts,
\* before any key is read, with an empty line, the cursor and hpos at 0, and
\* the accepted flag, line and error cleared.
C10_FreshStartAfterAccept ==
    last = "init-after-accept-line" =>
        /\ line = <<>>
        /\ cursor = 0
        /\ hpos = 0
        /\ ~accepted
        /\ acceptLine = <<>>
        /\ acceptErr = NoErr

\* The call starts after an accept-line whose line Write stored, which had
\* left hpos at the length of the source.
C10_Witness ==
    /\ last = "init-after-accept-line"
    /\ pc = "loop"
    /\ Len(hist) > base
    /\ hpos = 0

\* A Readline call starts: the step from outside the call into its loop.
ReadlineStarts == pc = "idle" /\ pc' = "loop"

\* C11: the Readline call that follows an accept-and-hold starts with the
\* line that was accepted, the cursor at its end and hpos=0; the call that
\* follows a plain accept-line starts with an empty line and the cursor at 0,
\* also when the line accepted had been held from the call before.
C11_HoldThenRelease ==
    [][/\ (ReadlineStarts /\ via = "accept-and-hold") =>
             /\ line' = acceptLine
             /\ cursor' = Len(acceptLine)
             /\ hpos' = 0
       /\ (ReadlineStarts /\ via = "accept-line") =>
             /\ line' = <<>>
             /\ cursor' = 0]_vars

\* A call started with the held line "a", which Write had stored when it was
\* accepted.
C11_Witness ==
    /\ pc = "loop"
    /\ via = "accept-and-hold"
    /\ line = <<"a">>
    /\ cursor = 1
    /\ hpos = 0
    /\ Len(hist) > base
    /\ hist[Len(hist)] = <<"a">>

\* C12: the Readline call that follows an accept-and-infer-next-history made
\* at hpos=0 starts with the line set to the entry that follows the match of
\* the accepted line (the match Sources.match finds for it), the cursor at
\* its end, whenever an entry follows the match.
C12_InferNextLine ==
    [][(ReadlineStarts /\ via = "accept-and-infer-next-history" /\ hpos = 0) =>
          LET m == matchFrom(hist, acceptLine, FALSE, FALSE, Len(hist))
          IN  (m.found /\ m.pos + 1 < Len(hist)) =>
                  /\ line' = hist[m.pos + 2]
                  /\ cursor' = Len(hist[m.pos + 2])]_vars

\* The lines a search is asked for.
Lines == UNION {[1..n -> Chars] : n \in 0..MaxLen}

\* The text InsertMatch looks for: the line, or with substring its part
\* before the cursor.
Query(m, cur, substring) ==
    IF substring /\ cur < Len(m) THEN SubSeq(m, 1, cur) ELSE m

\* Entry i (from 0, the oldest) matches query q.
Hit(i, q, substring) ==
    IF substring THEN Contains(hist[i + 1], q) ELSE HasPrefix(hist[i + 1], q)

\* Where the search starts.
StartOf(usePos, fwd) ==
    IF usePos /\ hpos > 0 THEN Len(hist) - hpos
    ELSE IF fwd THEN -1 ELSE Len(hist)

\* InsertMatch(m, cur, usePos, fwd, substring) makes entry i the line when
\* cands is not empty, i being its least (forward) or greatest (backward)
\* element, and changes nothing when cands is empty.
Selects(m, cur, usePos, fwd, substring, cands) ==
    LET r == InsertMatch(St, m, cur, usePos, fwd, substring)
        i == IF fwd THEN CHOOSE c \in cands : \A d \in cands : c <= d
             ELSE CHOOSE c \in cands : \A d \in cands : c >= d
    IN  IF cands = {} THEN r = St
        ELSE /\ r.hpos = Len(hist) - i
             /\ r.line = hist[i + 1]
             /\ r.cursor = Len(hist[i + 1])

\* C13 as stated: InsertMatch selects the matching entry with the smallest
\* index >= start going forward, the largest index <= start going backward.
C13_Original ==
    \A m \in Lines : \A cur \in 0..Len(m) : \A usePos, fwd, substring \in BOOLEAN :
        Selects(m, cur, usePos, fwd, substring,
                {i \in 0..(Len(hist) - 1) :
                    /\ Hit(i, Query(m, cur, substring), substring)
                    /\ IF fwd THEN i >= StartOf(usePos, fwd)
                       ELSE i <= StartOf(usePos, fwd)})

\* C13 amended: InsertMatch selects the matching entry with the smallest
\* index > start going forward, the largest index < start going backward,
\* start being Len-hpos when usePos is set and hpos > 0, else -1 (forward) or
\* Len (backward); no matching entry between the two is skipped, and the
\* entry at start itself is never selected.
C13_InsertMatchDirection ==
    \A m \in Lines : \A cur \in 0..Len(m) : \A usePos, fwd, substring \in BOOLEAN :
        Selects(m, cur, usePos, fwd, substring,
                {i \in 0..(Len(hist) - 1) :
                    /\ Hit(i, Query(m, cur, substring), substring)
                    /\ IF fwd THEN i > StartOf(usePos, fwd)
                       ELSE i < StartOf(usePos, fwd)})

\* A backward substring search ran from a recalled entry and made the
\* oldest entry the line.
C13_Witness ==
    /\ pc = "loop"
    /\ via = "history-substring-search-backward"
    /\ Len(hist) = 2
    /\ hpos = 2
    /\ line = hist[1]

\* C14: while the local keymap is isearch the buffer GetBuffer hands out is
\* the search minibuffer with its own cursor, so an editing command run in
\* between leaves the input line and its cursor as they were and the search
\* running; the buffer handed out is the minibuffer while it has a cursor,
\* else the completed line while a candidate is inserted, else the line.
C14_IsearchEditsMinibuffer ==
    /\ [](local = Isearch => isearchCur # -1)
    /\ [](/\ RlLine(St) = IF isearchCur # -1 THEN isearchBuf
                          ELSE IF selected # <<>> THEN completed
                          ELSE line
          /\ RlCursor(St) = IF isearchCur # -1 THEN isearchCur
                            ELSE IF selected # <<>> THEN compCursor
                            ELSE cursor)
    /\ [][(local = Isearch /\ (SelfInsert \/ ViBackwardChar)) =>
              /\ line' = line
              /\ cursor' = cursor
              /\ local' = Isearch
              /\ isearchCur' # -1]_vars

\* A text was typed into the minibuffer of an incremental search started on
\* a line that was not empty, and a candidate is inserted virtually.
C14_Witness ==
    /\ pc = "loop"
    /\ local = Isearch
    /\ isearchBuf = <<"a">>
    /\ isearchCur = 1
    /\ selected # <<>>
    /\ line = <<"#">>
    /\ cursor = 1

\* The state of the shell, the history and the completion engine.
program == <<line, cursor, main, hist, hpos, buf, infer, accepted, acceptHold,
             acceptLine, acceptErr, cpos, skip, edits, engine>>

\* Keys bound to nothing were read; those bound to no command were read.
UndefinedKey == last' \in {"undefined", "undefined-isearch"}
UnresolvedKey == last' = "unresolved"

\* C15 as stated: keys that match no binding leave the line and the cursor
\* unchanged; with the local keymap isearch the hint is reset and the search
\* cancelled, in any other keymap nothing changes; keys that matched a
\* binding cancel nothing.
C15_Original ==
    [][/\ UndefinedKey =>
            /\ line' = line
            /\ cursor' = cursor
            /\ IF local = Isearch
               THEN hint' = "" /\ local' = NoLocal /\ isearchCur' = -1
               ELSE UNCHANGED program
       /\ UnresolvedKey =>
            UNCHANGED <<local, isearchCur, isearchBuf, hint>>]_vars

\* C15 amended: keys that match no binding leave the line and the cursor
\* unchanged unless a candidate is inserted virtually, which then becomes
\* the line; with the local keymap isearch the hint is reset and the search
\* cancelled, in any other keymap nothing else changes; keys that matched a
\* binding cancel nothing.
C15_UndefinedKey ==
    [][/\ UndefinedKey =>
            /\ line' = IF selected # <<>> THEN completed ELSE line
            /\ cursor' = IF selected # <<>> THEN compCursor ELSE cursor
            /\ selected' = <<>>
            /\ IF local = Isearch
               THEN hint' = "" /\ local' = NoLocal /\ isearchCur' = -1
               ELSE selected = <<>> /\ UNCHANGED program
       /\ UnresolvedKey =>
            UNCHANGED <<local, isearchCur, isearchBuf, hint>>]_vars

\* Keys bound to nothing were read during an incremental search that had a
\* candidate inserted: the search is over and the candidate is the line.
C15_Witness ==
    /\ pc = "loop"
    /\ last = "undefined-isearch"
    /\ local = NoLocal
    /\ isearchCur = -1
    /\ hint = ""
    /\ isearchBuf = <<"a">>
    /\ line # <<>>
    /\ selected = <<>>

\* The entries a search for the minibuffer text can select from the current
\* position: those that match, beyond the position in the direction of the
\* search.
SearchCands ==
    {i \in 0..(Len(hist) - 1) :
        /\ Hit(i, Query(isearchBuf, isearchCur, isearchSubstring), isearchSubstring)
        /\ IF isearchForward THEN i > StartOf(TRUE, TRUE)
           ELSE i < StartOf(TRUE, FALSE)}

\* C16: accept-line run while the minibuffer of a non-incremental search is
\* active does not end the call and accepts nothing: the entry matching the
\* minibuffer text, searched from the current position in the direction and
\* with the kind of match of the search, becomes the line (nothing changes
\* when none matches), the search is stopped and GetBuffer hands out the
\* input line again.
C16_AcceptInSearch ==
    [][(pc = "loop" /\ via' = "accept-line" /\ NonIncrementallySearching(Fields)) =>
          /\ pc' = "loop"
          /\ accepted' = FALSE
          /\ ret' = ret
          /\ hist' = hist
          /\ IF SearchCands = {}
             THEN line' = line /\ hpos' = hpos
             ELSE LET i == IF isearchForward
                           THEN CHOOSE c \in SearchCands : \A d \in SearchCands : c <= d
                           ELSE CHOOSE c \in SearchCands : \A d \in SearchCands : c >= d
                  IN  line' = hist[i + 1] /\ hpos' = Len(hist) - i
          /\ isearchCur' = -1
          /\ selected' = <<>>
          /\ main' = isearchModeExit]_vars

\* accept-line ran in a non-incremental search for "a": the call goes on
\* with the matching entry as the line and the search stopped.
C16_Witness ==
    /\ pc = "loop"
    /\ via = "accept-line"
    /\ accepted = FALSE
    /\ isearchCur = -1
    /\ isearchBuf = <<"a">>
    /\ hpos = 2
    /\ line = hist[1]

\* C17: the vi transition table. vi-movement-mode run from insert or from a
\* visual mode leaves main = vi-command, local = none and no selection;
\* vi-insertion-mode and the append commands leave main = vi-insert, local =
\* none and no selection; vi-visual-mode and vi-visual-line-mode leave local =
\* visual, the selection active and anchored at the cursor, and the main
\* keymap as it was.
C17_ViTransitions ==
    [][/\ (ViCommandMode /\ (main = ViIns \/ local = Visual)) =>
            /\ main' = ViCmd
            /\ local' = NoLocal
            /\ ~selection'.active
       /\ (ViKeyInsert \/ ViKeyAppend \/ ViKeyAppendEol) =>
            /\ main' = ViIns
            /\ local' = NoLocal
            /\ ~selection'.active
       /\ (ViKeyVisual \/ ViKeyVisualLine) =>
            /\ local' = Visual
            /\ selection'.active
            /\ selection'.bpos = cursor
            /\ main' = main]_vars

\* The logical line the cursor is on, and the line without it.
CurrentLine == SubSeq(line, LineBegin(line, cursor) + 1, EndOfLineAppend(line, cursor))
WithoutCurrentLine ==
    SubSeq(line, 1, LineBegin(line, cursor))
        \o SubSeq(line, EndOfLineAppend(line, cursor) + 1, Len(line))

\* The operator key runs its command with no selection and nothing
\* pending; it runs it again while its command is pending.
OperatorFirst(key, name) ==
    key /\ ~selection.active /\ main = ViCmd /\ local # ViOpp
OperatorAgain(key, name) ==
    key /\ local = ViOpp /\ pending = name /\ ~pendSkip

\* C18: in vi command mode with no selection, d, c and y make the keymap
\* operator-pending with the selection anchored at the cursor and leave the
\* line as it is; the same key again ends the pending state and acts on the
\* whole logical line of the cursor: d and c cut it, y leaves the line as it
\* is, and d and y write it to the register with a newline at its end.
C18_OperatorTwice ==
    [][/\ \A op \in {<<"d", "vi-delete-to">>, <<"c", "vi-change-to">>,
                     <<"y", "vi-yank-to">>} :
            LET key == CASE op[1] = "d" -> ViKeyDelete
                         [] op[1] = "c" -> ViKeyChange
                         [] OTHER -> ViKeyYank
            IN  /\ OperatorFirst(key, op[2]) =>
                     /\ local' = ViOpp
                     /\ pending' = op[2]
                     /\ selection'.active
                     /\ selection'.bpos = cursor
                     /\ line' = line
                /\ OperatorAgain(key, op[2]) =>
                     /\ local' # ViOpp
                     /\ pending' = ""
                     /\ line' = IF op[1] = "y" THEN line ELSE WithoutCurrentLine
                     /\ op[1] # "c" => register' = CurrentLine \o <<"\n">>]_vars

\* Position m of l holds a comment-begin marker: the sign at the start of
\* the text or after whitespace.
IsMarker(l, m) == l[m] = CommentBegin /\ (m = 1 \/ IsSpace(l[m - 1]))

\* Position j of l is in a comment: a marker at or before it, on its line.
InComment(l, j) ==
    \E m \in 1..j : IsMarker(l, m) /\ \A k \in m..j : l[k] # "\n"

\* The whitespace right before a marker.
BeforeMarker(l, j) == IsSpace(l[j]) /\ j < Len(l) /\ l[j + 1] = CommentBegin

\* The characters of l at the positions of K, in their order, from j on.
RECURSIVE Pick(_, _, _)
Pick(l, K, j) ==
    IF j > Len(l) THEN <<>>
    ELSE (IF j \in K THEN <<l[j]>> ELSE <<>>) \o Pick(l, K, j + 1)

\* A call returned what LineAccepted made of an accept.
Returns == pc = "loop" /\ pc' = "idle" /\ accepted'

\* What LineAccepted answers when nothing is accepted.
NothingAccepted ==
    ~accepted => LineAccepted(St) = [ok |-> FALSE, line |-> <<>>, err |-> NoErr, st |-> St]

\* The entry an accept wrote is the line as it was typed.
HistoryKeepsComment ==
    (Returns /\ hist' # hist) => hist' = Append(hist, acceptLine')

\* C19 as stated: the line returned is the accepted line without the text of
\* its comments, from a marker to the end of its line, all the rest being
\* returned as it is; the entry written to the history keeps the comment;
\* when nothing is accepted LineAccepted returns (false, "", nil) and
\* changes nothing.
C19_Original ==
    /\ []NothingAccepted
    /\ [][/\ HistoryKeepsComment
          /\ Returns =>
               ret'.line = Pick(acceptLine',
                                {j \in 1..Len(acceptLine') : ~InComment(acceptLine', j)},
                                1)]_vars

\* C19 amended: the line returned is the accepted line without the text of
\* its comments, from a marker to the end of its line, and without the
\* whitespace character right before each marker, all the rest being
\* returned as it is; the entry written to the history keeps the comment;
\* when nothing is accepted LineAccepted returns (false, "", nil) and
\* changes nothing.
C19_CommentsRemoved ==
    /\ []NothingAccepted
    /\ [][/\ HistoryKeepsComment
          /\ Returns =>
               ret'.line = Pick(acceptLine',
                                {j \in 1..Len(acceptLine') :
                                    /\ ~InComment(acceptLine', j)
                                    /\ ~BeforeMarker(acceptLine', j)},
                                1)]_vars

\* The line "a #" was accepted: "a" is returned and "a #" is the newest
\* entry of the history.
C19_Witness ==
    /\ pc = "idle"
    /\ accepted
    /\ acceptLine = <<"a", " ", "#">>
    /\ ret.line = <<"a">>
    /\ hist[Len(hist)] = <<"a", " ", "#">>

\* A command moved to another position of the history; it recalled an entry.
Walks == pc = "loop" /\ pc' = "loop" /\ hpos' # hpos
Recalls == Walks /\ hpos' > 0

\* Where the end of line l is for the cursor: on the last character in vi
\* command mode, after it otherwise.
EndOf(l, m) == IF m = ViCmd THEN Max(0, Len(l) - 1) ELSE Len(l)

\* C20: with history-preserve-point set, the first walk away from hpos = 0
\* made with the cursor not at the end of the line records the column of the
\* cursor; each line recalled from then on has the cursor at that column when
\* it is longer than the column and at its end otherwise; with the option
\* unset the cursor is at the end of each recalled line; a new call forgets
\* the column.
C20_PreservePoint ==
    [][/\ (Walks /\ preservePoint /\ hpos = 0 /\ cpos = -1
              /\ cursor < EndOf(line, main)) =>
            cpos' = cursor
       /\ (Recalls /\ preservePoint /\ cpos' # -1) =>
            cursor' = IF Len(line') > cpos' THEN cpos' ELSE EndOf(line', main')
       /\ (Recalls /\ (~preservePoint \/ cpos' = -1)) =>
            cursor' = EndOf(line', main')
       /\ ReadlineStarts => cpos' = -1]_vars

\* The entries of h that extend l: strictly longer, and starting with it.
Extending(h, l) == {i \in 1..Len(h) : Len(h[i]) > Len(l) /\ HasPrefix(h[i], l)}

\* The most recent entry of h extending l, and l when it is empty or no
\* entry extends it.
MostRecentExtending(h, l) ==
    IF l = <<>> \/ Extending(h, l) = {} THEN l
    ELSE h[CHOOSE i \in Extending(h, l) : \A j \in Extending(h, l) : j <= i]

\* C21: Suggest(line) returns the first history line, from the most recent
\* entry backwards, that is strictly longer than the input and starts with
\* it; it returns the input itself when the input is empty or when no
\* history line extends it.
C21_Suggest == Suggest(St, line) = MostRecentExtending(hist, line)

\* C22: with history-autosuggest set, a history line extending the input and
\* the cursor at the end of the input, forward-char makes the suggested line
\* the line and puts the cursor at its length; with no longer suggestion the
\* line is unchanged.
C22_ForwardCharAccepts ==
    [][(ViForwardChar /\ autosuggest /\ isearchCur = -1 /\ selected = <<>>
           /\ cursor = EndOf(line, main)) =>
         IF Len(Suggest(St, line)) > Len(line)
         THEN line' = Suggest(St, line) /\ cursor' = Len(line')
         ELSE line' = line]_vars

\* accept-line ran with the multiline-accept predicate answering ok (TRUE
\* when none is installed), outside the search modes.
AcceptLineAnswered(ok) ==
    /\ isearchCur = -1
    /\ local # Isearch
    /\ Dispatch("accept-line", acceptLineCmd(MainSt, ok))

\* C23: accept-line outside any search mode accepts the line and the loop
\* returns when no multiline-accept predicate is installed or the predicate
\* answers true; when it answers false the line is not accepted, nothing is
\* written to the history, a newline is inserted at the cursor and the cursor
\* advances by one.
C23_AcceptOrNewline ==
    [][/\ AcceptLineAnswered(TRUE) =>
            /\ accepted'
            /\ acceptLine' = line
            /\ pc' = "idle"
            /\ ret'.err = NoErr
       /\ (multiline /\ AcceptLineAnswered(FALSE)) =>
            /\ ~accepted'
            /\ pc' = "loop"
            /\ hist' = hist
            /\ line' = LineInsert(line, cursor, "\n")
            /\ cursor' = cursor + 1]_vars

\* The predicate refused a line with the cursor inside it: the newline is
\* before the character the cursor was on.
C23_Witness ==
    /\ pc = "loop"
    /\ multiline
    /\ via = "accept-line"
    /\ ~accepted
    /\ line = <<"\n", "a">>
    /\ cursor = 1

\* A command bound in the isearch keymap ran; a command of the main keymap
\* ran, or the main keymap was matched without a command being run.
LocalCommand == local = Isearch /\ (SelfInsert \/ ViBackwardChar)
MainCommand == ViCommandMode \/ IncrementalSearchHistory
MainMatched == MainCommand \/ UndefinedKey \/ UnresolvedKey

\* C24: in an iteration of the loop the local keymap is matched first; keys
\* that are a prefix of local bindings run nothing; a local command runs
\* without the virtual completion being committed and without the main keymap
\* being matched; when the local keymap matched no command the virtual
\* completion is committed, and this before the main keymap is matched.
C24_LocalBeforeMain ==
    [][/\ (pc = "loop" /\ last' = "prefixed-local") => UNCHANGED program
       /\ LocalCommand =>
            /\ UNCHANGED <<line, cursor, main>>
            /\ selected # <<>> => UNCHANGED <<selected, completed, compCursor>>
       /\ (pc = "loop" /\ last' = "prefixed-main") =>
            /\ line' = IF selected # <<>> THEN completed ELSE line
            /\ cursor' = IF selected # <<>> THEN compCursor ELSE cursor
            /\ selected' = <<>>
            /\ UNCHANGED <<main, hist, hpos, local, isearchBuf, isearchCur, hint>>
       /\ (AcceptLine /\ selected # <<>>) =>
            acceptLine' = completed /\ selected' = <<>>
       /\ (MainMatched /\ selected # <<>>) =>
            line' = completed /\ selected' = <<>>]_vars

\* Keys that start a longer binding of the main keymap were read while a
\* candidate was inserted virtually during an incremental search: the
\* candidate is the line and the search goes on.
C24_Witness ==
    /\ pc = "loop"
    /\ last = "prefixed-main"
    /\ local = Isearch
    /\ isearchBuf = <<"a">>
    /\ selected = <<>>
    /\ line = <<"a", "a">>

\* What InsertMatch(m, cur, usePos, fwd, substring) leaves of the line, the
\* cursor and hpos: those of the entry match found, or what they were.
MatchEffect(m, cur, usePos, fwd, substring) ==
    LET f == match(St, m, cur, usePos, fwd, substring)
        r == InsertMatch(St, m, cur, usePos, fwd, substring)
    IN  IF f.found
        THEN /\ f.pos \in 0..(Len(hist) - 1)
             /\ r.line = hist[f.pos + 1]
             /\ r.cursor = Len(r.line)
             /\ r.hpos = Len(hist) - f.pos
             /\ r.hpos \in 1..Len(hist)
        ELSE /\ r.line = line
             /\ r.cursor = cursor
             /\ r.hpos = hpos

\* A substring search of the history ran.
SubstringSearch ==
    /\ pc = "loop"
    /\ via' \in {"history-substring-search-forward",
                 "history-substring-search-backward"}

SmartContains(e, q) ==
    IF HasUpper(q) THEN Contains(e, q) ELSE Contains(LowerLine(e), q)

\* The texts a search is asked for, in both cases.
CaseLines == UNION {[1..n -> CaseChars] : n \in 0..MaxLen}

\* C26: in substring mode InsertMatch matches the query against the history
\* lines with smart case: a query with no uppercase character matches
\* regardless of case, a query with an uppercase character matches
\* case-sensitively; in prefix mode the query is a prefix of the line.
C26_SmartCase ==
    \A m \in CaseLines : \A cur \in 0..Len(m) : \A fwd, substring \in BOOLEAN :
        LET q == Query(m, cur, substring)
            cands == {i \in 0..(Len(hist) - 1) :
                         IF substring THEN SmartContains(hist[i + 1], q)
                         ELSE HasPrefix(hist[i + 1], q)}
            r == InsertMatch(St, m, cur, FALSE, fwd, substring)
        IN  IF cands = {} THEN r = St
            ELSE r.line \in {hist[i + 1] : i \in cands}

\* The entries search-again can select: those the minibuffer text occurs
\* in, beyond the current position in the direction of the search.
AgainCands(forward) ==
    {i \in 0..(Len(hist) - 1) :
        /\ Contains(hist[i + 1], isearchBuf)
        /\ IF forward THEN i > StartOf(TRUE, TRUE) ELSE i < StartOf(TRUE, FALSE)}

\* C27: the commands that stop an incremental search (IsearchStop) leave the
\* local keymap other than isearch, no compiled expression, GetBuffer handing
\* out a buffer other than the minibuffer, and the minibuffer text as it was;
\* search-again (NonIsearchStart with repeat) searches the history for that
\* text and keeps it; vi-search (NonIsearchStart without repeat) starts with
\* an empty minibuffer.
C27_SearchAgain ==
    /\ [][(local = Isearch /\ (ViCommandMode \/ AcceptLine)) =>
             /\ local' # Isearch
             /\ isearchRegex' = NoRegex
             /\ GetBuffer(Fields)' # "minibuffer"
             /\ isearchBuf' = isearchBuf]_vars
    /\ [][\A forward \in BOOLEAN :
             ViKeySearchAgain(forward) =>
                 /\ isearchBuf' = isearchBuf
                 /\ GetBuffer(Fields)' # "minibuffer"
                 /\ IF AgainCands(forward) = {}
                    THEN line' = line /\ hpos' = hpos
                    ELSE LET i == IF forward
                                  THEN CHOOSE c \in AgainCands(forward) :
                                           \A d \in AgainCands(forward) : c <= d
                                  ELSE CHOOSE c \in AgainCands(forward) :
                                           \A d \in AgainCands(forward) : c >= d
                         IN  line' = hist[i + 1] /\ hpos' = Len(hist) - i]_vars
    /\ [][ViKeySearch => (isearchBuf' = <<>> /\ isearchCur' = 0)]_vars

\* search-again ran with the text "a" a stopped search had left in the
\* minibuffer: the most recent entry with an "a" is the line.
C27_Witness ==
    /\ via = "vi-search-again"
    /\ local = NoLocal
    /\ isearchRegex = NoRegex
    /\ isearchCur = -1
    /\ isearchBuf = <<"a">>
    /\ hpos = 1
    /\ line = hist[Len(hist)]
    /\ main = ViCmd

\* C28: when the text a key leaves in the minibuffer of an incremental
\* search does not compile, the update that follows the command leaves the
\* hint "Failed to compile i-search regexp" and the rows of the candidates
\* as they were before it.
C28_CompileFailure ==
    [][(RegexInsert /\ selected = <<>> /\ ~Compiles(isearchBuf')) =>
          /\ hint' = "failed-regexp"
          /\ rows' = rows]_vars

\* A command ran with the local keymap isearch, or started the search.
IsearchCommand ==
    \/ RegexInsert
    \/ local = Isearch /\ ViBackwardChar
    \/ IncrementalSearchHistory

\* The command left a candidate inserted virtually: one was inserted, and
\* the command was found in the local keymap.
LeftInserted == selected # <<>> /\ ~IncrementalSearchHistory

\* The candidates of the cached completer that expression r matches.
MatchingRows(r) == SelectSeq(Cached(Fields), LAMBDA e : RegexMatch(r, e))

\* C29: after the update that follows a command of an incremental search
\* whose minibuffer compiles, the rows hold exactly the candidates of the
\* cached completer the expression matches; with autoinsert, a match and a
\* minibuffer that is not empty the first match is selected; and while a
\* candidate is inserted virtually the update changes nothing. (A command
\* that panics is followed by no update.)
C29_RowsFiltered ==
    [][(IsearchCommand /\ last' = "cmd" /\ local' = Isearch
            /\ Compiles(isearchBuf')) =>
          IF LeftInserted
          THEN UNCHANGED <<rows, isearchRegex, hint, selected>>
          ELSE /\ isearchRegex' = isearchBuf'
               /\ rows' = MatchingRows(isearchBuf')
               /\ (isearchInsert' /\ MatchingRows(isearchBuf') # <<>>
                       /\ Len(isearchBuf') > 0)
                    => selected' = Head(MatchingRows(isearchBuf'))]_vars

\* The main keymaps a search can start from.
MainKeymaps == {Emacs, ViIns, ViCmd, ViMove, Vi}

\* The engine with main keymap m.
WithMain(m) == [Fields EXCEPT !.main = m]

\* A search started with main keymap m and stopped.
SearchedFrom(m, repeat, forward) ==
    NonIsearchStop(NonIsearchStart(WithMain(m), repeat, forward, TRUE))

\* C30: NonIsearchStart records the main keymap and makes it vi-insert when
\* it is a vi keymap other than vi-insert, leaving emacs alone; the stop of
\* the search restores the recorded keymap. From every main keymap a search
\* started and stopped, once or twice in a row, leaves the main keymap it
\* started from; so do the vi search keys followed by accept-line, and the
\* search-again keys.
C30_KeymapRestored ==
    /\ [](\A m \in MainKeymaps : \A repeat, forward \in BOOLEAN :
            /\ NonIsearchStart(WithMain(m), repeat, forward, TRUE).main
                   = IF m \in {Emacs, ViIns} THEN m ELSE ViIns
            /\ NonIsearchStart(WithMain(m), repeat, forward, TRUE).isearchModeExit = m
            /\ SearchedFrom(m, repeat, forward).main = m
            /\ NonIsearchStop(NonIsearchStart(SearchedFrom(m, repeat, forward),
                                              ~repeat, ~forward, TRUE)).main = m)
    /\ [][ViKeySearch => (main' = ViIns /\ isearchModeExit' = main)]_vars
    /\ [][(NonIncrementallySearching(Fields) /\ pc' = "loop"
             /\ NonIncrementallySearching(Fields)') =>
             isearchModeExit' = isearchModeExit \/ ViKeySearch]_vars
    /\ [][(AcceptLine /\ NonIncrementallySearching(Fields)) =>
             main' = isearchModeExit]_vars
    /\ [][\A forward \in BOOLEAN : ViKeySearchAgain(forward) => main' = main]_vars

\* A search started from vi-command with the search key, "a" typed in
\* vi-insert, and accept-line: the main keymap is vi-command again.
C30_Witness ==
    /\ via = "accept-line"
    /\ pc = "loop"
    /\ main = ViCmd
    /\ isearchCur = -1
    /\ isearchBuf = <<"a">>
    /\ isearchModeExit = ""
    /\ hpos > 0

\* A command of the history walked or fetched, and the source answered the
\* read of the entry with an error: the error comes on the hint line.
HistoryCommand ==
    UpHistory \/ DownHistory \/ BeginningOfHistory \/ EndOfHistory \/ FetchHistory
ReadFailed ==
    HistoryCommand /\ hint # "history-error" /\ hint' = "history-error"

\* C31: a source that answers reads with an error has previous-history from
\* the input line, and fetch-history, show the error on the hint line; and a
\* command that shows it leaves the line, the cursor and the position in the
\* history as they were.
C31_ReadErrorNoOp ==
    [][/\ \A isSet \in BOOLEAN : \A n \in 1..MaxIter :
            (readErr /\ FetchHistoryAt(isSet, n)
                 /\ (IF isSet THEN n ELSE 0) < Len(hist)) => hint' = "history-error"
       /\ (readErr /\ UpHistory /\ hpos = 0 /\ edits = NoEdits) =>
            hint' = "history-error"
       /\ ReadFailed => UNCHANGED <<line, cursor, hpos>>]_vars

\* How many times candidate c is in the list vs.
Count(vs, c) == Cardinality({j \in 1..Len(vs) : vs[j] = c})

\* The lists vs and ws hold the same candidates, each as many times.
SameCandidates(vs, ws) == \A c \in Candidates : Count(vs, c) = Count(ws, c)

\* C32: the groups generated for the candidates of a tag are one group with
\* all of them when all are described or none is, and else two groups, the
\* first with exactly the described candidates and the second with exactly
\* the undescribed ones.
C32_GroupSplit ==
    groups # <<>> =>
        IF SelectSeq(values, IsDescribed) = <<>>
              \/ SelectSeq(values, IsUndescribed) = <<>>
        THEN Len(groups) = 1 /\ SameCandidates(groups[1].vals, values)
        ELSE /\ Len(groups) = 2
             /\ SameCandidates(groups[1].vals, SelectSeq(values, IsDescribed))
             /\ SameCandidates(groups[2].vals, SelectSeq(values, IsUndescribed))

\* Two candidates of the list share a description that is not empty.
SharesDescription(vs) ==
    \E i, j \in 1..Len(vs) : i # j /\ vs[i].desc # "" /\ vs[i].desc = vs[j].desc

\* C33: a group is aliased exactly when two or more of its candidates share
\* a non-empty description, wherever they are in the list of its values.
C33_AliasedDetected ==
    \A k \in 1..Len(groups) :
        groups[k].aliased <=> SharesDescription(groups[k].vals)

\* C34: Write gives the accepted line to every bound source whose latest
\* line differs from it, also when another bound source already ends with
\* the line, and gives a blank line to none.
LatestLine(h) == IF h = <<>> THEN <<>> ELSE h[Len(h)]
C34_WriteToAll ==
    [][\A l \in WriteLines :
         SourcesWrite(l) =>
             IF IsBlank(l) THEN list' = list
             ELSE \A n \in DOMAIN list :
                      LatestLine(list[n]) # l => LatestLine(list'[n]) = l]_vars

\* C35: whenever a source is bound, the index of the source in use is one
\* of the bound names, and Cycle to the next source followed by Cycle to
\* the previous one comes back to it.
C35_IndexInRange ==
    names # <<>> =>
        /\ 0 <= sourcePos
        /\ sourcePos < Len(names)
        /\ cycle(cycle(sourcePos, Len(names), TRUE), Len(names), FALSE) = sourcePos

\* C36: vi-delete-char with repeat count n reads no position outside the
\* line, removes the min(n, Len - pos) characters from the cursor on, puts
\* exactly those in the register, and changes nothing on an empty line or
\* with the cursor at Len.
C36_DeleteChar ==
    [][\A n \in 1..MaxIter :
         ViDeleteCharBy(n) =>
             /\ last' = "cmd"
             /\ line' = SubSeq(line, 1, cursor)
                          \o SubSeq(line, cursor + Min(n, Len(line) - cursor) + 1,
                                    Len(line))
             /\ (Len(line) > 0 /\ cursor < Len(line)) =>
                    register' = SubSeq(line, cursor + 1,
                                       cursor + Min(n, Len(line) - cursor))
             /\ (Len(line) = 0 \/ cursor = Len(line)) =>
                    UNCHANGED <<line, cursor, register>>]_vars

\* C37: vi-forward-char and vi-backward-char with any repeat count read no
\* position outside the line, leave the cursor in [0, Len-1], and leave it
\* on the logical line it was on: no newline is crossed.
NewlinesBefore(l, pos) == Cardinality({j \in 1..Min(pos, Len(l)) : l[j] = "\n"})
C37_CharMoves ==
    [][\A n \in 1..MaxIter :
         (ViForwardCharBy(n) \/ ViBackwardCharBy(n)) =>
             /\ last' = "cmd"
             /\ line' = line
             /\ cursor' >= 0
             /\ cursor' <= Max(0, Len(line) - 1)
             /\ NewlinesBefore(line, cursor') = NewlinesBefore(line, cursor)]_vars

\* C38: end-of-buffer-or-history with the cursor before the end of the
\* buffer moves the cursor to the end and leaves the history position and
\* the line; only with the cursor at the end does it go to the end of the
\* history.
C38_BufferFirst ==
    [][(EndOfBufferOrHistory /\ last' = "cmd") =>
         IF cursor < Len(line)
         THEN cursor' = Len(line) /\ hpos' = hpos /\ line' = line
         ELSE hpos' = endOfHistory(MainSt).hpos]_vars

\* C39: the layout of an aliased group, once begun, comes to its end for
\* every candidate list and terminal width; then there is one description
\* entry per row, and no row has more cells than columns were kept.
LaidOut ==
    /\ Len(grp.descs) = Len(grp.rows)
    /\ \A k \in 1..Len(grp.rows) : Len(grp.rows[k]) <= Len(grp.columnsWidth)
C39_LayoutTerminates ==
    /\ (grp.pc = "row") ~> (grp.pc = "done")
    /\ []((grp.pc = "done" /\ grp.aliased) => LaidOut)

\* C40: in a group with a candidate, a moveSelector(x, y) that returns
\* done=false leaves the selector on an existing candidate; the first
\* forward move into the group not entered yet selects the cell (0, 0); and
\* in a group of several rows a downward move from a row that is not the
\* last one stays in its column, on the next row, when that row has the
\* column.
OnCandidate(g) ==
    /\ InRange(g.posY, Len(g.rows))
    /\ InRange(g.posX, Len(g.rows[g.posY + 1]))
Forward == {<<1, 0>>, <<0, 1>>}
C40_SelectorInGroup ==
    [][\A x, y \in {-1, 0, 1} :
         MoveSelector(x, y) =>
             /\ (grp'.pc = "done" /\ ~grp'.done) => OnCandidate(grp')
             /\ (grp.posX = -1 /\ grp.posY = -1 /\ <<x, y>> \in Forward) =>
                    (grp'.posX = 0 /\ grp'.posY = 0)
             /\ (/\ x = 0 /\ y = 1 /\ OnCandidate(grp)
                 /\ grp.posY < Len(grp.rows) - 1
                 /\ InRange(grp.posX, Len(grp.rows[grp.posY + 2]))) =>
                    (grp'.posX = grp.posX /\ grp'.posY = grp.posY + 1)]_vars

====
